---- MODULE Spec2Model ----
(***************************************************************************)
(* A model of the ray-tracing core of rtracer: hit selection, the          *)
(* refractive-index walk of prepare_computations, Phong lighting and the   *)
(* recursive shading pipeline of World (color_at, shade_hit,               *)
(* reflected_color, refracted_color, is_shadowed).                         *)
(*                                                                         *)
(* Numbers.  f64 values are modelled on integer grids:                     *)
(*   - lengths (coordinates, t values) in units of EPSILON / 2, so that    *)
(*     EPSILON is 2 and values closer than EPSILON exist;                  *)
(*   - colours, Phong coefficients, reflective, transparency, refractive   *)
(*     indices and reflectance in units of 1 / One (One is 1.0); one       *)
(*     colour channel stands for the three, which the code treats alike;   *)
(*   - points and vectors are pairs <<x, y>> (the z coordinate is 0        *)
(*     throughout); every direction the model uses is one of the four      *)
(*     axis unit vectors, for which magnitude and normalize are exact;     *)
(*   - a shape's transform is a translation composed with a uniform        *)
(*     scaling, kept as the pair (translate, scale).                       *)
(***************************************************************************)
EXTENDS Integers, Sequences, FiniteSets, TLC

\* lib.rs: EPSILON = 0.0001, in length units of EPSILON / 2
EPSILON == 2
\* 1.0 on the fixed-point grid of colours and coefficients
One == 100
\* color.rs: BLACK
BLACK == 0

---------------------------------------------------------------------------
\* Bounds of the model
MaxLen == 3        \* longest intersection list of the hit harness
TRange == 3        \* t values of the hit harness lie in -TRange .. TRange
MaxObjects == 2    \* most objects a world holds
MaxDepth == 2      \* largest budget of a top-level color_at call

---------------------------------------------------------------------------
\* Option<T>: None is the empty sequence, Some(x) a one-element sequence
None == <<>>
Some(x) == <<x>>

Abs(a) == IF a < 0 THEN -a ELSE a

\* floor of the square root
RECURSIVE SqrtFrom(_, _)
SqrtFrom(n, k) == IF (k + 1) * (k + 1) > n THEN k ELSE SqrtFrom(n, k + 1)
sqrt(n) == SqrtFrom(n, 0)

\* fixed-point product of two values in units of 1 / One
Mul(a, b) == (a * b) \div One

---------------------------------------------------------------------------
\* lib.rs

float_eq(a, b) == Abs(a - b) < EPSILON

float_cmp(a, b) ==
  IF float_eq(a, b) THEN "Equal"
  ELSE IF a < b THEN "Less"
  ELSE "Greater"

---------------------------------------------------------------------------
\* vector.rs, point.rs

dot(a, b) == a[1] * b[1] + a[2] * b[2]
add(a, b) == <<a[1] + b[1], a[2] + b[2]>>
sub(a, b) == <<a[1] - b[1], a[2] - b[2]>>
neg(a) == <<-a[1], -a[2]>>
scale(a, s) == <<a[1] * s, a[2] * s>>
magnitude(v) == sqrt(v[1] * v[1] + v[2] * v[2])
normalize(v) == LET mag == magnitude(v) IN <<v[1] \div mag, v[2] \div mag>>
reflect(v, normal) == sub(v, scale(normal, 2 * dot(v, normal)))

---------------------------------------------------------------------------
\* intersection.rs

Intersection(t, object) == [t |-> t, object |-> object]

\* impl PartialEq for dyn Shape: identity is the id
shape_eq(a, b) == a.id = b.id

\* impl PartialEq for Intersection
intersection_eq(a, b) == float_eq(a.t, b.t) /\ shape_eq(a.object, b.object)

\* impl Ord / PartialOrd for Intersection
intersection_cmp(a, b) == float_cmp(a.t, b.t)

\* Iterator::min keeps the earlier of two elements unless the later one
\* compares Less
RECURSIVE min_from(_, _, _)
min_from(xs, i, acc) ==
  IF i > Len(xs) THEN acc
  ELSE min_from(xs, i + 1,
                IF intersection_cmp(acc, xs[i]) = "Greater" THEN xs[i] ELSE acc)

hit_strict_positive(xs) ==
  LET f == SelectSeq(xs, LAMBDA x : x.t > 0)
  IN  IF f = <<>> THEN None ELSE Some(min_from(f, 2, f[1]))

hit(xs) ==
  LET f == SelectSeq(xs, LAMBDA x : x.t >= 0)
  IN  IF f = <<>> THEN None ELSE Some(min_from(f, 2, f[1]))

contains(container, object) ==
  \E j \in 1..Len(container) : shape_eq(container[j], object)

\* one pass of the loop body of prepare_computations over xs[i]
update_container(container, object) ==
  IF contains(container, object)
  THEN SelectSeq(container, LAMBDA o : ~shape_eq(o, object))
  ELSE Append(container, object)

top_index(container) ==
  IF container = <<>> THEN One
  ELSE container[Len(container)].material.refractive_index

\* the n1 / n2 loop of prepare_computations: n1 and n2 start at 0.0 and are
\* set at the first element of xs that equals self, where the loop breaks
RECURSIVE refraction_walk(_, _, _, _)
refraction_walk(xs, self, i, container) ==
  IF i > Len(xs) THEN [n1 |-> 0, n2 |-> 0]
  ELSE LET after == update_container(container, xs[i].object)
       IN  IF intersection_eq(xs[i], self)
           THEN [n1 |-> top_index(container), n2 |-> top_index(after)]
           ELSE refraction_walk(xs, self, i + 1, after)

refraction_indices(xs, self) == refraction_walk(xs, self, 1, <<>>)

---------------------------------------------------------------------------
\* ray.rs

Ray(origin, direction) == [origin |-> origin, direction |-> direction]

position(r, t) == add(r.origin, scale(r.direction, t))

---------------------------------------------------------------------------
\* matrix.rs, transformations.rs.  On the two axes of the model a 4x4 matrix
\* is the 3x3 matrix of the rows and columns x, y and w; translations are
\* in length units, the other entries are plain numbers.

IDENTITY == <<<<1, 0, 0>>, <<0, 1, 0>>, <<0, 0, 1>>>>

\* impl Mul for Matrix
matrix_mul(a, b) ==
  [r \in 1..3 |->
    [c \in 1..3 |-> a[r][1] * b[1][c] + a[r][2] * b[2][c] + a[r][3] * b[3][c]]]

\* impl Mul<Point> for Matrix: the point's w is 1 and the w row is not read
matrix_mul_point(m, p) ==
  <<m[1][1] * p[1] + m[1][2] * p[2] + m[1][3] * 1,
    m[2][1] * p[1] + m[2][2] * p[2] + m[2][3] * 1>>

\* impl Mul<Vector> for Matrix: the vector's w is 0
matrix_mul_vector(m, v) ==
  <<m[1][1] * v[1] + m[1][2] * v[2] + m[1][3] * 0,
    m[2][1] * v[1] + m[2][2] * v[2] + m[2][3] * 0>>

transpose(m) == [r \in 1..3 |-> [c \in 1..3 |-> m[c][r]]]

\* the rows and columns other than r and c, in order
others(r) == IF r = 1 THEN <<2, 3>> ELSE IF r = 2 THEN <<1, 3>> ELSE <<1, 2>>

minor(m, r, c) ==
  LET rs == others(r)
      cs == others(c)
  IN  m[rs[1]][cs[1]] * m[rs[2]][cs[2]] - m[rs[1]][cs[2]] * m[rs[2]][cs[1]]

cofactor(m, r, c) == IF (r + c) % 2 = 1 THEN -minor(m, r, c) ELSE minor(m, r, c)

determinant(m) ==
  m[1][1] * cofactor(m, 1, 1) + m[1][2] * cofactor(m, 1, 2)
    + m[1][3] * cofactor(m, 1, 3)

\* Matrix::inverse: an error (None) when the determinant is 0.0, else the
\* matrix of cofactor(r, c) / d at [c][r], kept as the numerators num over
\* the common denominator den
inverse(m) ==
  IF determinant(m) = 0 THEN None
  ELSE Some([num |-> [c \in 1..3 |-> [r \in 1..3 |-> cofactor(m, r, c)]],
             den |-> determinant(m)])

\* Transformation::new and the builder methods: each multiplies its own
\* matrix onto self from the left
Transformation_new == IDENTITY

translation(self, x, y) ==
  matrix_mul(<<<<1, 0, x>>, <<0, 1, y>>, <<0, 0, 1>>>>, self)

scaling(self, x, y) ==
  matrix_mul(<<<<x, 0, 0>>, <<0, y, 0>>, <<0, 0, 1>>>>, self)

\* cos and sin of k quarter turns
cos_quarter(k) == IF k % 4 = 0 THEN 1 ELSE IF k % 4 = 2 THEN -1 ELSE 0
sin_quarter(k) == IF k % 4 = 1 THEN 1 ELSE IF k % 4 = 3 THEN -1 ELSE 0

\* rotate_z(k * PI / 2)
rotate_z(self, k) ==
  matrix_mul(<<<<cos_quarter(k), -sin_quarter(k), 0>>,
               <<sin_quarter(k), cos_quarter(k), 0>>,
               <<0, 0, 1>>>>, self)

\* shearing(xy, 0, yx, 0, 0, 0): the last row of the code's matrix is
\* [0, 0, 0, 0]
shearing(self, xy, yx) ==
  matrix_mul(<<<<1, xy, 0>>, <<yx, 1, 0>>, <<0, 0, 0>>>>, self)

---------------------------------------------------------------------------
\* shapes.rs, shapes/sphere.rs, shapes/plane.rs

\* On the coefficient grid (steps of 1 / One, coarser than EPSILON) two
\* values are within EPSILON of each other exactly when they are equal.
float_eq_coarse(a, b) == a = b

\* Ray::transform by the inverse of translation(translate) * scaling(scale):
\* origin (o - translate) / scale and direction d / scale, kept as the two
\* numerators over the common denominator scale
local_ray(shape, r) ==
  [origin |-> sub(r.origin, shape.translate), direction |-> r.direction,
   den |-> shape.scale]

\* Sphere: a, b, c below are the code's a, b, c times den^2; the factor
\* cancels in the sign of the discriminant and in both roots
sphere_intersect_single(shape, lr) ==
  LET a == dot(lr.direction, lr.direction)
      b == 2 * dot(lr.direction, lr.origin)
      c == dot(lr.origin, lr.origin) - lr.den * lr.den
      discriminant == b * b - 4 * a * c
  IN  IF discriminant < 0 THEN None
      ELSE IF discriminant = 0
      THEN Some(<<Intersection((-b) \div (2 * a), shape)>>)
      ELSE Some(<<Intersection((-b - sqrt(discriminant)) \div (2 * a), shape),
                  Intersection((-b + sqrt(discriminant)) \div (2 * a), shape)>>)

sphere_intersect(shape, lr) ==
  LET a == dot(lr.direction, lr.direction)
      b == 2 * dot(lr.direction, lr.origin)
      c == dot(lr.origin, lr.origin) - lr.den * lr.den
      discriminant == b * b - 4 * a * c
  IN  IF discriminant < 0 THEN None
      ELSE Some(<<Intersection((-b - sqrt(discriminant)) \div (2 * a), shape),
                  Intersection((-b + sqrt(discriminant)) \div (2 * a), shape)>>)

\* Plane::local_intersect (the plane y = 0 of object space).  The y
\* component of the local direction is direction[2] / den, where 1.0 is
\* 10000 * EPSILON length units; it is compared with EPSILON.
plane_intersect_inclusive(shape, lr) ==
  IF Abs(lr.direction[2]) * 10000 * EPSILON <= EPSILON * lr.den THEN None
  ELSE Some(<<Intersection((-lr.origin[2]) \div lr.direction[2], shape)>>)

plane_intersect(shape, lr) ==
  IF Abs(lr.direction[2]) * 10000 * EPSILON < EPSILON * lr.den THEN None
  ELSE Some(<<Intersection((-lr.origin[2]) \div lr.direction[2], shape)>>)

\* Matrix::is_invertible of the shape's transform: the determinant of
\* translation * scaling(s, s, s) is s^3, compared with 0.0 exactly
is_invertible(shape) == ~(shape.scale * shape.scale * shape.scale = 0)

\* Shape::intersect panics: the default method expects the inverse, which
\* Sphere's own intersect does not
intersect_panics(shape) == shape.kind # "sphere" /\ ~is_invertible(shape)

\* Shape::intersect, when it returns: Sphere overrides the default method
\* and returns None without an inverse
intersect(shape, r) ==
  IF shape.kind = "sphere"
  THEN IF ~is_invertible(shape) THEN None
       ELSE sphere_intersect(shape, local_ray(shape, r))
  ELSE plane_intersect(shape, local_ray(shape, r))

\* Shape::normal_at panics: every variant unwraps the inverse
normal_at_panics(shape) == ~is_invertible(shape)

\* Shape::normal_at without a world: the inverse and its transpose scale by
\* 1 / scale, which normalize removes
normal_at(shape, point) ==
  IF shape.kind = "sphere" THEN normalize(sub(point, shape.translate))
  ELSE <<0, 1>>

\* prepare_computations offsetting over_point and under_point along the
\* normal as normal_at returned it
prepare_computations_offset_first(self, r, xs) ==
  LET point == position(r, self.t)
      eyev == neg(r.direction)
      normal == normal_at(self.object, point)
      inside == dot(normal, eyev) < 0
      normalv == IF inside THEN neg(normal) ELSE normal
      n == refraction_indices(xs, self)
  IN  [t |-> self.t,
       object |-> self.object,
       point |-> point,
       eyev |-> eyev,
       normalv |-> normalv,
       inside |-> inside,
       over_point |-> add(point, scale(normal, EPSILON)),
       under_point |-> sub(point, scale(normal, EPSILON)),
       reflectv |-> reflect(r.direction, normalv),
       n1 |-> n.n1,
       n2 |-> n.n2]

\* Intersection::prepare_computations (called by color_at without a world)
prepare_computations(self, r, xs) ==
  LET point == position(r, self.t)
      eyev == neg(r.direction)
      normal == normal_at(self.object, point)
      inside == dot(normal, eyev) < 0
      normalv == IF inside THEN neg(normal) ELSE normal
      n == refraction_indices(xs, self)
  IN  [t |-> self.t,
       object |-> self.object,
       point |-> point,
       eyev |-> eyev,
       normalv |-> normalv,
       inside |-> inside,
       over_point |-> add(point, scale(normalv, EPSILON)),
       under_point |-> sub(point, scale(normalv, EPSILON)),
       reflectv |-> reflect(r.direction, normalv),
       n1 |-> n.n1,
       n2 |-> n.n2]

---------------------------------------------------------------------------
\* computations.rs

\* f64::sqrt and powi on the grid of 1 / One
sqrt_fixed(x) == sqrt(x * One)

RECURSIVE powi(_, _)
powi(x, e) == IF e = 0 THEN One ELSE Mul(x, powi(x, e - 1))

\* Computation::schlick after its first line, cos0 being eyev . normalv
schlick_none_reflected(n1, n2, cos0) ==
  LET n == (n1 * One) \div n2
      sin2_t == Mul(powi(n, 2), One - powi(cos0, 2))
      tir == n1 > n2 /\ sin2_t > One
      cos == IF n1 > n2 THEN sqrt_fixed(One - sin2_t) ELSE cos0
      r0 == powi(((n1 - n2) * One) \div (n1 + n2), 2)
  IN  IF tir THEN 0 ELSE r0 + Mul(One - r0, powi(One - cos, 5))

schlick_of_cos(n1, n2, cos0) ==
  LET n == (n1 * One) \div n2
      sin2_t == Mul(powi(n, 2), One - powi(cos0, 2))
      tir == n1 > n2 /\ sin2_t > One
      cos == IF n1 > n2 THEN sqrt_fixed(One - sin2_t) ELSE cos0
      r0 == powi(((n1 - n2) * One) \div (n1 + n2), 2)
  IN  IF tir THEN One ELSE r0 + Mul(One - r0, powi(One - cos, 5))

\* Computation::schlick
schlick(comps) ==
  schlick_of_cos(comps.n1, comps.n2, dot(comps.eyev, comps.normalv) * One)

---------------------------------------------------------------------------
\* pattern/stripes.rs

\* Stripes::stripe_at_object and stripe_at with the pattern's default
\* (identity) transform: the x coordinate of the object point is
\* (x - translate.x) / scale, and 1.0 is 10000 * EPSILON length units
stripe_at_object(pattern, object, world_point) ==
  LET num == sub(world_point, object.translate)
  IN  IF (num[1] \div (10000 * EPSILON * object.scale)) % 2 = 0
      THEN pattern.a ELSE pattern.b

\* A coordinate of a pattern point is big * 2^30 + small / 10, kept as the
\* pair of big and small, so that values beyond the range of i32 exist.
Coordinate(big, small) == [big |-> big, small |-> small]

\* f64::floor, as the pair of big and the floor of the small part
floor(x) == [big |-> x.big, whole |-> x.small \div 10]

\* `as i32` of a whole f64: saturates at i32::MIN and i32::MAX
as_i32(f) ==
  IF f.big >= 2 THEN 2147483647
  ELSE IF f.big <= -3 \/ (f.big = -2 /\ f.whole < 0) THEN -2147483647 - 1
  ELSE IF f.big = -2 THEN (-2147483647 - 1) + f.whole
  ELSE f.big * 1073741824 + f.whole

\* the operator % of Rust: the remainder has the sign of the dividend
rem(a, b) ==
  LET m == a % b
  IN  IF m = 0 \/ a >= 0 THEN m ELSE m - b

\* Stripes::stripe_at
stripe_at(pattern, x) ==
  IF rem(as_i32(floor(x)), 2) = 0 THEN pattern.a ELSE pattern.b

---------------------------------------------------------------------------
\* pattern/checkers.rs

\* Checkers::pattern_at on the two axes of the model: the sum of the floors
\* is an f64, and big * 2^30 adds a multiple of 2.0 to it
pattern_at(pattern, x, y) ==
  LET tmp == floor(x).whole + floor(y).whole
  IN  IF float_eq(rem(tmp, 2) * 10000 * EPSILON, 0) THEN pattern.a
      ELSE pattern.b

---------------------------------------------------------------------------
\* material.rs

\* f64::powf for the bases the model produces (cosines of axis vectors)
RECURSIVE powf(_, _)
powf(x, e) == IF e = 0 THEN 1 ELSE x * powf(x, e - 1)

lightning_ignores_shadow(m, object, light, position0, eyev, normalv, in_shadow) ==
  LET color == IF m.pattern # None
               THEN stripe_at_object(m.pattern[1], object, position0)
               ELSE m.color
      effective_color == Mul(color, light.intensity)
      lightv == normalize(sub(light.position, position0))
      ambient == Mul(effective_color, m.ambient)
      light_dot_normal == dot(lightv, normalv)
      reflect_dot_eye == dot(reflect(neg(lightv), normalv), eyev)
      dark == light_dot_normal <= 0
      diffuse == IF dark THEN BLACK
                 ELSE Mul(effective_color, m.diffuse) * light_dot_normal
      specular == IF dark \/ reflect_dot_eye <= 0 THEN BLACK
                  ELSE Mul(light.intensity, m.specular)
                       * powf(reflect_dot_eye, m.shinniness)
  IN  [ambient |-> ambient, diffuse |-> diffuse, specular |-> specular,
       color |-> ambient + diffuse + specular]

\* Material::lightning; the record keeps the three contributions next to
\* the returned colour
lightning(m, object, light, position0, eyev, normalv, in_shadow) ==
  LET color == IF m.pattern # None
               THEN stripe_at_object(m.pattern[1], object, position0)
               ELSE m.color
      effective_color == Mul(color, light.intensity)
      lightv == normalize(sub(light.position, position0))
      ambient == Mul(effective_color, m.ambient)
      light_dot_normal == dot(lightv, normalv)
      reflect_dot_eye == dot(reflect(neg(lightv), normalv), eyev)
      dark == light_dot_normal <= 0 \/ in_shadow
      diffuse == IF dark THEN BLACK
                 ELSE Mul(effective_color, m.diffuse) * light_dot_normal
      specular == IF dark \/ reflect_dot_eye <= 0 THEN BLACK
                  ELSE Mul(light.intensity, m.specular)
                       * powf(reflect_dot_eye, m.shinniness)
  IN  [ambient |-> ambient, diffuse |-> diffuse, specular |-> specular,
       color |-> ambient + diffuse + specular]

---------------------------------------------------------------------------
\* world.rs

\* slice::sort_by on a short slice is a stable insertion sort: each element
\* moves left past the elements it compares Less than
RECURSIVE insert_tail(_, _)
insert_tail(sorted, x) ==
  IF sorted = <<>> \/ intersection_cmp(x, sorted[Len(sorted)]) # "Less"
  THEN Append(sorted, x)
  ELSE Append(insert_tail(SubSeq(sorted, 1, Len(sorted) - 1), x),
              sorted[Len(sorted)])

RECURSIVE sort_from(_, _, _)
sort_from(v, i, sorted) ==
  IF i > Len(v) THEN sorted ELSE sort_from(v, i + 1, insert_tail(sorted, v[i]))

sort_by(v) == sort_from(v, 1, <<>>)

\* the loop of intersect_world: every object's intersections, appended
RECURSIVE collect(_, _, _)
collect(objs, r, i) ==
  IF i > Len(objs) THEN <<>>
  ELSE LET is == intersect(objs[i], r)
       IN  (IF is = None THEN <<>> ELSE is[1]) \o collect(objs, r, i + 1)

\* World::intersect_world
intersect_world(objs, r) ==
  LET all == collect(objs, r, 1)
  IN  IF Len(all) = 0 THEN None ELSE Some(sort_by(all))

\* World::is_shadowed, for a world that has a light
is_shadowed(objs, light, p) ==
  LET v == sub(light.position, p)
      distance == magnitude(v)
      direction == normalize(v)
      intersections == intersect_world(objs, Ray(p, direction))
      h == IF intersections = None THEN None ELSE hit(intersections[1])
  IN  h # None /\ h[1].t < distance

\* reflected_color returns BLACK without casting a ray
reflected_is_black_and(comps, remaining) ==
  float_eq_coarse(comps.object.material.reflective, 0) /\ remaining = 0

reflected_is_black(comps, remaining) ==
  float_eq_coarse(comps.object.material.reflective, 0) \/ remaining = 0

\* the ray reflected_color casts
reflect_ray(comps) == Ray(comps.over_point, comps.reflectv)

\* the budget reflected_color and refracted_color hand to color_at
next_remaining_same(remaining) == remaining

next_remaining(remaining) == remaining - 1

\* refracted_color: Snell's law on the grid of 1 / One
n_ratio(comps) == (comps.n1 * One) \div comps.n2
cos_i(comps) == dot(comps.eyev, comps.normalv) * One
sin2_t(comps) == Mul(powi(n_ratio(comps), 2), One - powi(cos_i(comps), 2))

\* refracted_color returns BLACK without casting a ray
refracted_is_black(comps, remaining) ==
  \/ float_eq_coarse(comps.object.material.transparency, 0)
  \/ remaining = 0
  \/ sin2_t(comps) > One

\* the ray refracted_color casts; the direction is computed in units of
\* 1 / One and brought back to the unit grid
refract_ray(comps) ==
  LET cos_t == sqrt_fixed(One - sin2_t(comps))
      d == sub(scale(comps.normalv, Mul(n_ratio(comps), cos_i(comps)) - cos_t),
               scale(comps.eyev, n_ratio(comps)))
  IN  Ray(comps.under_point, <<d[1] \div One, d[2] \div One>>)

\* the last statement of shade_hit
shade_hit_sum_or(comps, surface, reflected, refracted) ==
  LET material == comps.object.material
  IN  IF material.reflective > 0 \/ material.transparency > 0
      THEN LET reflectance == schlick(comps)
           IN  surface + Mul(reflected, reflectance)
                       + Mul(refracted, One - reflectance)
      ELSE surface + reflected + refracted

shade_hit_sum(comps, surface, reflected, refracted) ==
  LET material == comps.object.material
  IN  IF material.reflective > 0 /\ material.transparency > 0
      THEN LET reflectance == schlick(comps)
           IN  surface + Mul(reflected, reflectance)
                       + Mul(refracted, One - reflectance)
      ELSE surface + reflected + refracted

\* the match of color_at over the intersections ixs of the world: the
\* computations of the hit, or None on a miss
color_at_first(ixs, r) ==
  IF ixs = None THEN None
  ELSE Some(prepare_computations(ixs[1][1], r, ixs[1]))

color_at_match(ixs, r) ==
  LET h == IF ixs = None THEN None ELSE hit(ixs[1])
  IN  IF h = None THEN None
      ELSE Some(prepare_computations(h[1], r, ixs[1]))

\* World::color_at and World::shade_hit as values, for a world (objs, l)
\* that has a light: what the calls return, the call stack left aside
RECURSIVE color_at(_, _, _, _)
RECURSIVE shade_hit(_, _, _, _)
color_at(objs, l, r, remaining) ==
  LET c == color_at_match(intersect_world(objs, r), r)
  IN  IF c = None THEN BLACK ELSE shade_hit(objs, l, c[1], remaining)

shade_hit(objs, l, comps, remaining) ==
  LET material == comps.object.material
      shadowed == is_shadowed(objs, l, comps.over_point)
      surface == lightning(material, comps.object, l, comps.over_point,
                           comps.eyev, comps.normalv, shadowed).color
      reflected ==
        IF reflected_is_black(comps, remaining) THEN BLACK
        ELSE Mul(color_at(objs, l, reflect_ray(comps),
                          next_remaining(remaining)), material.reflective)
      refracted ==
        IF refracted_is_black(comps, remaining) THEN BLACK
        ELSE Mul(color_at(objs, l, refract_ray(comps),
                          next_remaining(remaining)), material.transparency)
  IN  shade_hit_sum(comps, surface, reflected, refracted)

---------------------------------------------------------------------------
\* shapes/group.rs, and the parent chain of shapes.rs.  A shape of a group
\* tree carries its whole transform as a matrix; a point or a ray of
\* object space has rational coordinates, kept as numerators over one
\* positive denominator den.

\* Plane::new and Group::new (the id is drawn by Uuid::new_v4)
Plane_new(id) ==
  [id |-> id, kind |-> "plane", parent |-> None,
   transform |-> Transformation_new, objects |-> <<>>]

Group_new(id) ==
  [id |-> id, kind |-> "group", parent |-> None,
   transform |-> Transformation_new, objects |-> <<>>]

set_transform(shape, t) == [shape EXCEPT !.transform = t]

set_parent_id(shape, id) == [shape EXCEPT !.parent = Some(id)]

\* Group::add_object
add_object_as_is(self, shape) == [self EXCEPT !.objects = Append(@, shape)]

add_object(self, shape) ==
  [self EXCEPT !.objects = Append(@, set_parent_id(shape, self.id))]

\* World::get_object_by_id and Group::get_object_by_id: the same loop over
\* the objects from index i on; the default method of a shape that is not
\* a group finds nothing, as does the loop over its empty objects
RECURSIVE get_object_by_id(_, _, _)
get_object_by_id(objs, id, i) ==
  IF i > Len(objs) THEN None
  ELSE IF objs[i].id = id THEN Some(objs[i])
  ELSE LET c == get_object_by_id(objs[i].objects, id, 1)
       IN  IF c # None THEN c ELSE get_object_by_id(objs, id, i + 1)

\* Ray::transform by an inverse inv = num / den
ray_transform(r, inv) ==
  LET o == <<inv.num[1][1] * r.origin[1] + inv.num[1][2] * r.origin[2]
               + inv.num[1][3] * r.den,
             inv.num[2][1] * r.origin[1] + inv.num[2][2] * r.origin[2]
               + inv.num[2][3] * r.den>>
      v == matrix_mul_vector(inv.num, r.direction)
      d == inv.den * r.den
  IN  IF d < 0 THEN [origin |-> neg(o), direction |-> neg(v), den |-> -d]
      ELSE [origin |-> o, direction |-> v, den |-> d]

\* Shape::intersect of a shape of a group tree (its transform invertible),
\* Group::local_intersect and its loop over the children from index i on
RECURSIVE Shape_intersect(_, _)
RECURSIVE Group_collect(_, _, _)
RECURSIVE Group_local_intersect(_, _)

Shape_intersect(shape, r) ==
  LET lr == ray_transform(r, inverse(shape.transform)[1])
  IN  IF shape.kind = "group" THEN Group_local_intersect(shape, lr)
      ELSE plane_intersect(shape, lr)

Group_collect(objs, ray, i) ==
  IF i > Len(objs) THEN <<>>
  ELSE LET oxs == Shape_intersect(objs[i], ray)
       IN  (IF oxs = None THEN <<>> ELSE oxs[1])
             \o Group_collect(objs, ray, i + 1)

Group_local_intersect(self, ray) ==
  LET xs == Group_collect(self.objects, ray, 1)
  IN  IF xs = <<>> THEN None ELSE Some(sort_by(xs))

\* inverse * point, for a point num / den
inverse_mul_point(inv, p) ==
  LET o == <<inv.num[1][1] * p.num[1] + inv.num[1][2] * p.num[2]
               + inv.num[1][3] * p.den,
             inv.num[2][1] * p.num[1] + inv.num[2][2] * p.num[2]
               + inv.num[2][3] * p.den>>
      d == inv.den * p.den
  IN  IF d < 0 THEN [num |-> neg(o), den |-> -d] ELSE [num |-> o, den |-> d]

\* Shape::world_to_object panics: a parent id the world does not hold, or
\* a transform without an inverse on the way
RECURSIVE world_to_object_panics(_, _)
world_to_object_panics(shape, w) ==
  \/ /\ shape.parent # None
     /\ LET parent == get_object_by_id(w, shape.parent[1], 1)
        IN  parent = None \/ world_to_object_panics(parent[1], w)
  \/ inverse(shape.transform) = None

\* Shape::world_to_object, w being the objects of the world
RECURSIVE world_to_object(_, _, _)
world_to_object(shape, point, w) ==
  LET object_point ==
        IF shape.parent # None
        THEN world_to_object(get_object_by_id(w, shape.parent[1], 1)[1],
                             point, w)
        ELSE point
  IN  inverse_mul_point(inverse(shape.transform)[1], object_point)

\* floor of the square root of n, found between lo and hi
RECURSIVE SqrtBetween(_, _, _)
SqrtBetween(n, lo, hi) ==
  IF lo = hi THEN lo
  ELSE LET mid == (lo + hi + 1) \div 2
       IN  IF mid * mid > n THEN SqrtBetween(n, lo, mid - 1)
           ELSE SqrtBetween(n, mid, hi)

\* Vector::normalize of a vector in units of 1 / One
normalize_fixed(v) ==
  LET mag == SqrtBetween(dot(v, v), 0, dot(v, v))
  IN  <<(v[1] * One) \div mag, (v[2] * One) \div mag>>

\* (inverse.transpose() * normal).normalize(): the positive factor
\* 1 / |den| is removed by normalize, the sign of den is not
inverse_transpose_mul(inv, normal) ==
  LET v == matrix_mul_vector(transpose(inv.num), normal)
  IN  normalize_fixed(IF inv.den < 0 THEN neg(v) ELSE v)

\* Shape::normal_to_world
RECURSIVE normal_to_world_parent_first(_, _, _)
normal_to_world_parent_first(shape, normal, w) ==
  LET parent_normal ==
        IF shape.parent # None
        THEN normal_to_world_parent_first(
               get_object_by_id(w, shape.parent[1], 1)[1], normal, w)
        ELSE normal
  IN  inverse_transpose_mul(inverse(shape.transform)[1], parent_normal)

RECURSIVE normal_to_world(_, _, _)
normal_to_world(shape, normal, w) ==
  LET world_normal ==
        inverse_transpose_mul(inverse(shape.transform)[1], normal)
  IN  IF shape.parent # None
      THEN normal_to_world(get_object_by_id(w, shape.parent[1], 1)[1],
                           world_normal, w)
      ELSE world_normal

\* Plane::local_normal_at
local_normal_at(shape, point) == <<0, One>>

\* Shape::normal_at of a shape of a group tree, w being None or
\* Some(the objects of the world)
Shape_normal_at(shape, point, w) ==
  IF w # None
  THEN normal_to_world(
         shape, local_normal_at(shape, world_to_object(shape, point, w[1])),
         w[1])
  ELSE LET inv == inverse(shape.transform)[1]
       IN  inverse_transpose_mul(
             inv, local_normal_at(shape, inverse_mul_point(inv, point)))

\* World::intersect_world of a world of group trees
Group_intersect_world(objs, r) ==
  LET xs == Group_collect(objs, r, 1)
  IN  IF Len(xs) = 0 THEN None ELSE Some(sort_by(xs))

\* Intersection::prepare_computations up to the flip of the normal, for an
\* intersection with a shape of a group tree
Shape_prepare_computations(self, r, w) ==
  LET point == [num |-> add(r.origin, scale(r.direction, self.t)),
                den |-> r.den]
      eyev == neg(r.direction)
      normal == Shape_normal_at(self.object, point, w)
      inside == dot(normal, eyev) < 0
  IN  [t |-> self.t,
       object |-> self.object,
       point |-> point,
       eyev |-> eyev,
       normalv |-> IF inside THEN neg(normal) ELSE normal,
       inside |-> inside]

\* World::color_at of a world of group trees, up to its call of shade_hit:
\* the computations handed to shade_hit, or None when it returns BLACK
Group_color_at_match(objs, r) ==
  LET ixs == Group_intersect_world(objs, r)
      h == IF ixs = None THEN None ELSE hit(ixs[1])
  IN  IF h = None THEN None
      ELSE Some(Shape_prepare_computations(h[1], r, None))

---------------------------------------------------------------------------
\* shapes/cone.rs.  The numbers of a cone and of its local ray are
\* fractions num / den with den > 0; the ray's origin has the components
\* origin / oden and its direction direction / den.

Rat(num, den) ==
  IF den < 0 THEN [num |-> -num, den |-> -den] ELSE [num |-> num, den |-> den]

RatAdd(a, b) == Rat(a.num * b.den + b.num * a.den, a.den * b.den)
RatSub(a, b) == Rat(a.num * b.den - b.num * a.den, a.den * b.den)
RatMul(a, b) == Rat(a.num * b.num, a.den * b.den)
RatDiv(a, b) == Rat(a.num * b.den, a.den * b.num)
RatLess(a, b) == a.num * b.den < b.num * a.den
RatAbs(a) == Rat(Abs(a.num), a.den)

\* Cone::new, set_cuts and set_closed: a cut is a fraction or, as after
\* new, infinite (None)
Cone(minimum, maximum, closed) ==
  [id |-> 1, kind |-> "cone", minimum |-> minimum, maximum |-> maximum,
   closed |-> closed]

ConeRay(origin, oden, direction, den) ==
  [origin |-> origin, oden |-> oden, direction |-> direction, den |-> den]

\* a coordinate of the ray's point at t
cone_position(ray, k, t) ==
  RatAdd(Rat(ray.origin[k], ray.oden), RatMul(t, Rat(ray.direction[k], ray.den)))

\* Cone::check_cap
check_cap(ray, t) ==
  LET x == cone_position(ray, 1, t)
      y == cone_position(ray, 2, t)
  IN  ~RatLess(RatAbs(y), RatMul(x, x))

\* Cone::intersect_caps, the cuts of a closed cone being finite
intersect_caps(self, ray) ==
  IF ~self.closed \/ Abs(ray.direction[2]) * 10000 < ray.den THEN None
  ELSE LET dy == Rat(ray.direction[2], ray.den)
           oy == Rat(ray.origin[2], ray.oden)
           t0 == RatDiv(RatSub(self.minimum[1], oy), dy)
           t1 == RatDiv(RatSub(self.maximum[1], oy), dy)
           xs == (IF check_cap(ray, t0) THEN <<Intersection(t0, self)>>
                  ELSE <<>>)
                   \o (IF check_cap(ray, t1) THEN <<Intersection(t1, self)>>
                       ELSE <<>>)
       IN  IF xs = <<>> THEN None ELSE Some(xs)

\* self.minimum < y && y < self.maximum
between_cuts(self, y) ==
  /\ self.minimum = None \/ RatLess(self.minimum[1], y)
  /\ self.maximum = None \/ RatLess(y, self.maximum[1])

\* Cone::local_intersect.  With a = an / den^2, b = bn / (oden * den) and
\* c = cn / oden^2 the discriminant is dn / (oden * den)^2 and the two roots
\* are (-bn -+ sqrt(dn)) * den / (2 * an * oden).  When a is exactly 0 the
\* roots are infinite or NaN and pass no comparison.
cone_local_intersect(self, ray) ==
  LET dx == ray.direction[1]
      dy == ray.direction[2]
      an == (dx - dy) * (dx + dy)
      bn == 2 * (ray.origin[1] * dx - ray.origin[2] * dy)
      cn == ray.origin[1] * ray.origin[1] - ray.origin[2] * ray.origin[2]
      a_eq_0 == Abs(an) * 10000 < ray.den * ray.den
      b_eq_0 == Abs(bn) * 10000 < ray.oden * ray.den
      dn == bn * bn - 4 * an * cn
      s == SqrtBetween(dn, 0, 46340)
      low == IF an > 0 THEN -bn - s ELSE -bn + s
      high == IF an > 0 THEN -bn + s ELSE -bn - s
      t0 == Rat(low * ray.den, 2 * an * ray.oden)
      t1 == Rat(high * ray.den, 2 * an * ray.oden)
      caps == intersect_caps(self, ray)
      xs == (IF a_eq_0 /\ bn # 0
             THEN <<Intersection(Rat(-cn * ray.den, 2 * bn * ray.oden), self)>>
             ELSE <<>>)
              \o (IF an # 0 /\ between_cuts(self, cone_position(ray, 2, t0))
                  THEN <<Intersection(t0, self)>> ELSE <<>>)
              \o (IF an # 0 /\ between_cuts(self, cone_position(ray, 2, t1))
                  THEN <<Intersection(t1, self)>> ELSE <<>>)
              \o (IF caps = None THEN <<>> ELSE caps[1])
  IN  IF a_eq_0 /\ b_eq_0 THEN None
      ELSE IF dn < 0 THEN None
      ELSE IF xs = <<>> THEN None ELSE Some(xs)

---------------------------------------------------------------------------
\* pattern/ring.rs.  The point's x and z are in thousandths.

\* (v * 100.0).round() / 100.0, in hundredths: f64::round rounds half away
\* from zero
round_hundredths(v) ==
  IF v >= 0 THEN (v + 5) \div 10 ELSE -((-v + 5) \div 10)

\* Ring::pattern_at
ring_pattern_at(pattern, px, pz) ==
  LET x == round_hundredths(px)
      z == round_hundredths(pz)
      tmp == SqrtBetween(x * x + z * z, 0, 46340) \div 100
  IN  IF float_eq(rem(tmp, 2) * 10000 * EPSILON, 0) THEN pattern.a
      ELSE pattern.b

---------------------------------------------------------------------------
\* canvas.rs

\* Canvas::new
Canvas(width, height) ==
  [width |-> width, height |-> height,
   pixels |-> [i \in 1..(width * height) |-> BLACK]]

\* Canvas::write_pixel and pixel_at panic: the index is beyond the pixels
index_panics(canvas, x, y) == x + y * canvas.width >= Len(canvas.pixels)

\* Canvas::write_pixel: pixels[x + y * width], the sequence counting from 1
write_pixel_row0(canvas, x, y, color) ==
  [canvas EXCEPT !.pixels[x + 1] = color]

write_pixel(canvas, x, y, color) ==
  [canvas EXCEPT !.pixels[x + y * canvas.width + 1] = color]

pixel_at(canvas, x, y) == canvas.pixels[x + y * canvas.width + 1]

---------------------------------------------------------------------------
\* The scenes of the model: shapes on the y axis and one beside it

Material(reflective, transparency, refractive_index) ==
  [color |-> One, ambient |-> 10, diffuse |-> 30, specular |-> 20,
   shinniness |-> 2, pattern |-> None, reflective |-> reflective,
   transparency |-> transparency, refractive_index |-> refractive_index]

Shape(kind, x, y, s, material) ==
  [id |-> 0, kind |-> kind, translate |-> <<x, y>>, scale |-> s,
   material |-> material]

Matte == Material(0, 0, One)
Mirror == Material(One, 0, One)
Glass == Material(0, One, 150)
Both == Material(50, 50, 150)

ShapePresets ==
  { Shape("plane", 0, -4, 1, Mirror),     \* lower mirror
    Shape("plane", 0, 3, 1, Mirror),      \* upper mirror, facing the lower
    Shape("plane", 0, 2, 1, Matte),       \* a wall closer than EPSILON to it
    Shape("plane", 0, -2, 1, Both),       \* reflective and transparent pane
    Shape("sphere", 0, 0, 6, Glass),      \* glass ball around the origin
    Shape("sphere", 10, 0, 1, Matte) }    \* a ball beside the axis

PointLight(position0, intensity) ==
  [position |-> position0, intensity |-> intensity]

LightPresets == { PointLight(<<0, 3>>, One), PointLight(<<0, -1>>, One) }

RayPresets ==
  { Ray(<<0, y>>, d) : y \in {0, -7}, d \in {<<0, 1>>, <<0, -1>>} }

---------------------------------------------------------------------------
VARIABLES
  objects,    \* World.objects
  light,      \* World.light: None or Some(light)
  stack,      \* the frames of the color_at calls in progress, outermost first
  result,     \* what the last top-level color_at returned, or None
  panicked,   \* an expect() failed
  nextId,     \* stands for Uuid::new_v4
  calls,      \* color_at calls since the top-level call started
  h_xs,       \* hit harness: a list of intersections
  h_hit,      \* hit harness: what hit returned for h_xs
  h_self,     \* hit harness: index in h_xs of the intersection prepared last
  h_n,        \* hit harness: its n1 and n2
  l_in,       \* lighting harness: the arguments of lightning
  l_out,      \* lighting harness: what lightning returned for l_in
  s_in,       \* shape harness: the method called, its shape and its ray
  s_out,      \* shape harness: whether it panicked, and what it returned
  t_ops,      \* transformation harness: the builder calls made so far
  t_data,     \* transformation harness: the Transformation they built
  c_camera,   \* render harness: None, or the camera of the render in progress
  c_world,    \* render harness: the world being rendered
  c_canvas,   \* render harness: the canvas of the render
  c_count,    \* render harness: color_at calls made so far for each pixel
  g_free,     \* group harness: the shapes built and not yet given away
  g_world,    \* group harness: World.objects
  g_nextId,   \* group harness: stands for Uuid::new_v4
  g_in,       \* group harness: the method called and its arguments
  g_out,      \* group harness: whether it panicked, and what it returned
  k_in,       \* call harness: the function called and its arguments
  k_out       \* call harness: whether it panicked, and what it returned

vars == <<objects, light, stack, result, panicked, nextId, calls,
          h_xs, h_hit, h_self, h_n, l_in, l_out, s_in, s_out, t_ops, t_data,
          c_camera, c_world, c_canvas, c_count,
          g_free, g_world, g_nextId, g_in, g_out, k_in, k_out>>

worldVars == <<objects, light, stack, result, panicked, nextId, calls>>
hitVars == <<h_xs, h_hit, h_self, h_n>>
lightVars == <<l_in, l_out>>
shapeVars == <<s_in, s_out>>
transformVars == <<t_ops, t_data>>
cameraVars == <<c_camera, c_world, c_canvas, c_count>>
groupVars == <<g_free, g_world, g_nextId, g_in, g_out>>
callVars == <<k_in, k_out>>
harnessVars == <<h_xs, h_hit, h_self, h_n, l_in, l_out, s_in, s_out,
                 t_ops, t_data, c_camera, c_world, c_canvas, c_count,
                 g_free, g_world, g_nextId, g_in, g_out, k_in, k_out>>

Frame(r, remaining) ==
  [ray |-> r, remaining |-> remaining, phase |-> "color_at", xs |-> None,
   comps |-> None, shadowed |-> FALSE, surface |-> BLACK, reflected |-> BLACK, refracted |-> BLACK,
   color |-> BLACK]

top == stack[Len(stack)]
idle == stack = <<>> /\ ~panicked
SetTop(f) == [stack EXCEPT ![Len(stack)] = f]

InitWorld ==
  /\ objects = <<>>
  /\ light = None
  /\ stack = <<>>
  /\ result = None
  /\ panicked = FALSE
  /\ nextId = 1
  /\ calls = 0

InitHit ==
  /\ h_xs = <<>>
  /\ h_hit = <<>>
  /\ h_self = 0
  /\ h_n = <<>>

InitLight ==
  /\ l_in = <<>>
  /\ l_out = <<>>

InitShape ==
  /\ s_in = <<>>
  /\ s_out = <<>>

InitTransform ==
  /\ t_ops = <<>>
  /\ t_data = Transformation_new

InitCamera ==
  /\ c_camera = None
  /\ c_world = None
  /\ c_canvas = None
  /\ c_count = <<>>

InitGroup ==
  /\ g_free = {}
  /\ g_world = <<>>
  /\ g_nextId = 1
  /\ g_in = <<>>
  /\ g_out = <<>>

InitCall ==
  /\ k_in = <<>>
  /\ k_out = <<>>

InitHarness ==
  /\ InitHit /\ InitLight /\ InitShape /\ InitTransform /\ InitCamera
  /\ InitGroup /\ InitCall

\* Vec::push
push_front(v, x) == <<x>> \o v

push(v, x) == Append(v, x)

\* World::add_object
AddObject ==
  /\ idle
  /\ Len(objects) < MaxObjects
  /\ \E p \in ShapePresets :
       objects' = push(objects, [p EXCEPT !.id = nextId])
  /\ nextId' = nextId + 1
  /\ result' = None
  /\ UNCHANGED <<light, stack, panicked, calls>>

\* World::set_light
SetLight ==
  /\ idle
  /\ \E l \in LightPresets : light' = Some(l)
  /\ result' = None
  /\ UNCHANGED <<objects, stack, panicked, nextId, calls>>

\* World::get_object_mut(i), through which the caller sets the material of
\* the shape; the reference is to a dyn Shape, whose id has no setter
GetObjectMut ==
  /\ idle
  /\ \E i \in 1..Len(objects) :
       /\ objects[i].material # Matte
       /\ objects' = [objects EXCEPT ![i].material = Matte]
  /\ result' = None
  /\ UNCHANGED <<light, stack, panicked, nextId, calls>>

\* a caller (the camera) calls color_at
CallColorAt ==
  /\ idle
  /\ \E r \in RayPresets, n \in 0..MaxDepth : stack' = <<Frame(r, n)>>
  /\ result' = None
  /\ calls' = 1
  /\ UNCHANGED <<objects, light, panicked, nextId>>

\* color_at: intersect the world and select the hit
ColorAt ==
  /\ stack # <<>> /\ ~panicked
  /\ top.phase = "color_at"
  /\ LET ixs == intersect_world(objects, top.ray)
         c == color_at_match(ixs, top.ray)
     IN  stack' = SetTop(IF c = None
                         THEN [top EXCEPT !.phase = "return", !.xs = ixs,
                                          !.color = BLACK]
                         ELSE [top EXCEPT !.phase = "shade_hit", !.xs = ixs,
                                          !.comps = c])
  /\ UNCHANGED <<objects, light, result, panicked, nextId, calls>>

\* self.light.expect("World has no light!") in is_shadowed and shade_hit:
\* the light, or None where the expect panics
expect_light_or_default(l) ==
  IF l = None THEN Some(PointLight(<<0, 3>>, One)) ELSE l

expect_light(l) == l

\* shade_hit up to the surface colour; is_shadowed and lightning expect a light
ShadeHit ==
  /\ stack # <<>> /\ ~panicked
  /\ top.phase = "shade_hit"
  /\ IF expect_light(light) = None
     THEN panicked' = TRUE /\ UNCHANGED stack
     ELSE LET comps == top.comps[1]
              l == expect_light(light)[1]
              shadowed == is_shadowed(objects, l, comps.over_point)
              surface == lightning(comps.object.material, comps.object,
                                   l, comps.over_point, comps.eyev,
                                   comps.normalv, shadowed).color
          IN  /\ stack' = SetTop([top EXCEPT !.phase = "reflected_color",
                                             !.shadowed = shadowed,
                                             !.surface = surface])
              /\ UNCHANGED panicked
  /\ UNCHANGED <<objects, light, result, nextId, calls>>

\* reflected_color up to its call of color_at
ReflectedColor ==
  /\ stack # <<>> /\ ~panicked
  /\ top.phase = "reflected_color"
  /\ IF reflected_is_black(top.comps[1], top.remaining)
     THEN /\ stack' = SetTop([top EXCEPT !.phase = "refracted_color",
                                         !.reflected = BLACK])
          /\ UNCHANGED calls
     ELSE /\ stack' = Append(SetTop([top EXCEPT !.phase = "reflected_wait"]),
                             Frame(reflect_ray(top.comps[1]),
                                   next_remaining(top.remaining)))
          /\ calls' = calls + 1
  /\ UNCHANGED <<objects, light, result, panicked, nextId>>

\* refracted_color up to its call of color_at
RefractedColor ==
  /\ stack # <<>> /\ ~panicked
  /\ top.phase = "refracted_color"
  /\ IF refracted_is_black(top.comps[1], top.remaining)
     THEN /\ stack' = SetTop([top EXCEPT !.phase = "combine",
                                         !.refracted = BLACK])
          /\ UNCHANGED calls
     ELSE /\ stack' = Append(SetTop([top EXCEPT !.phase = "refracted_wait"]),
                             Frame(refract_ray(top.comps[1]),
                                   next_remaining(top.remaining)))
          /\ calls' = calls + 1
  /\ UNCHANGED <<objects, light, result, panicked, nextId>>

\* the end of shade_hit
ShadeHitReturn ==
  /\ stack # <<>> /\ ~panicked
  /\ top.phase = "combine"
  /\ stack' = SetTop([top EXCEPT
                        !.phase = "return",
                        !.color = shade_hit_sum(top.comps[1], top.surface,
                                                top.reflected, top.refracted)])
  /\ UNCHANGED <<objects, light, result, panicked, nextId, calls>>

\* color_at returns to reflected_color, to refracted_color or to the caller
Return ==
  /\ stack # <<>> /\ ~panicked
  /\ top.phase = "return"
  /\ LET rest == SubSeq(stack, 1, Len(stack) - 1)
         caller == rest[Len(rest)]
         material == caller.comps[1].object.material
     IN  IF rest = <<>>
         THEN stack' = <<>> /\ result' = Some(top.color)
         ELSE /\ UNCHANGED result
              /\ stack' =
                   [rest EXCEPT ![Len(rest)] =
                      IF caller.phase = "reflected_wait"
                      THEN [caller EXCEPT
                              !.phase = "refracted_color",
                              !.reflected = Mul(top.color, material.reflective)]
                      ELSE [caller EXCEPT
                              !.phase = "combine",
                              !.refracted = Mul(top.color, material.transparency)]]
  /\ UNCHANGED <<objects, light, panicked, nextId, calls>>

Init == InitWorld /\ InitHarness

Next ==
  \/ (AddObject /\ UNCHANGED harnessVars)
  \/ (SetLight /\ UNCHANGED harnessVars)
  \/ (GetObjectMut /\ UNCHANGED harnessVars)
  \/ (CallColorAt /\ UNCHANGED harnessVars)
  \/ (ColorAt /\ UNCHANGED harnessVars)
  \/ (ShadeHit /\ UNCHANGED harnessVars)
  \/ (ReflectedColor /\ UNCHANGED harnessVars)
  \/ (RefractedColor /\ UNCHANGED harnessVars)
  \/ (ShadeHitReturn /\ UNCHANGED harnessVars)
  \/ (Return /\ UNCHANGED harnessVars)

Spec == Init /\ [][Next]_vars

---------------------------------------------------------------------------
\* Claims about World, over the frames of the calls in progress

\* the intersections of xs in front of the ray origin
NonNegative(xs) == { i \in 1..Len(xs) : xs[i].t >= 0 }

\* t never decreases along xs
Ascending(xs) == \A i \in 1..(Len(xs) - 1) : xs[i].t <= xs[i + 1].t

Frames == { stack[i] : i \in 1..Len(stack) }

\* the frames whose color_at has intersected the world
Matched == { f \in Frames : f.phase # "color_at" }

\* the frames whose shade_hit has computed the surface colour
Shaded == { f \in Frames : f.phase \notin {"color_at", "shade_hit"}
                            /\ f.comps # None }

\* what one object's intersect returns for the ray, as a list
ObjectHits(o, r) == IF intersect(o, r) = None THEN <<>> ELSE intersect(o, r)[1]

\* the non-negative t values at which the ray meets any object
FrontTs(r) ==
  UNION { { ObjectHits(objects[i], r)[j].t : j \in 1..Len(ObjectHits(objects[i], r)) }
          \cap Nat : i \in 1..Len(objects) }

Min(S) == CHOOSE m \in S : \A e \in S : m <= e

RECURSIVE HitCount(_, _)
HitCount(i, r) ==
  IF i > Len(objects) THEN 0
  ELSE Len(ObjectHits(objects[i], r)) + HitCount(i + 1, r)

Occurrences(seq, x) == Cardinality({ i \in 1..Len(seq) : seq[i] = x })

\* C3: color_at returns black when the ray meets no object at a t >= 0, and
\* otherwise the value of shade_hit for the computations prepared for
\* hit(xs), xs being the sorted intersections of the whole world.
C3_ColorAt ==
  \A f \in Matched :
    /\ f.xs = intersect_world(objects, f.ray)
    /\ FrontTs(f.ray) = {} =>
         f.comps = None /\ f.phase = "return" /\ f.color = BLACK
    /\ FrontTs(f.ray) # {} =>
         /\ f.comps = Some(prepare_computations(hit(f.xs[1])[1], f.ray, f.xs[1]))
         /\ f.comps[1].t >= 0
         /\ f.phase = "return" =>
              f.color = shade_hit_sum(f.comps[1], f.surface, f.reflected,
                                      f.refracted)

\* a color_at call is about to return the shading of a hit that is not the
\* first element of the sorted list (an intersection lies behind the origin)
C3_Witness ==
  \E f \in Matched :
    /\ f.phase = "return" /\ f.comps # None
    /\ f.xs[1][1].t < 0
    /\ f.color > 0

\* 2^n
RECURSIVE Pow2(_)
Pow2(n) == IF n = 0 THEN 1 ELSE 2 * Pow2(n - 1)

\* C4: color_at(ray, n) terminates: each nested color_at call gets the
\* caller's budget minus one and none is made at budget 0, so at most n + 1
\* calls are ever nested and at most 2^(n+1) - 1 are made in all.
C4_DepthBounded ==
  stack # <<>> =>
    LET n == stack[1].remaining
    IN  /\ Len(stack) <= n + 1
        /\ \A i \in 1..Len(stack) : stack[i].remaining = n - (i - 1)
        /\ calls <= Pow2(n + 1) - 1

\* between two facing mirrors the calls nest as deep as the budget allows
C4_Witness ==
  /\ Len(stack) = MaxDepth + 1
  /\ stack[1].remaining = MaxDepth
  /\ \A i \in 1..(Len(stack) - 1) :
       /\ stack[i].phase = "reflected_wait"
       /\ stack[i].comps[1].object.material.reflective = One
       /\ stack[i + 1].ray.direction = neg(stack[i].ray.direction)

\* C5: with remaining = 0, reflected_color and refracted_color return black
\* whatever the material is, and cast no ray: the frame makes no call.
C5_BlackAtZero ==
  \A i \in 1..Len(stack) :
    stack[i].remaining = 0 =>
      /\ i = Len(stack)
      /\ stack[i].phase \notin {"reflected_wait", "refracted_wait"}
      /\ stack[i].phase \in {"refracted_color", "combine", "return"} =>
           stack[i].reflected = BLACK
      /\ stack[i].phase \in {"combine", "return"} => stack[i].refracted = BLACK

\* a hit on a reflective and transparent material was shaded at budget 0
C5_Witness ==
  \E f \in Shaded :
    /\ f.remaining = 0 /\ f.phase = "combine"
    /\ f.comps[1].object.material.reflective > 0
    /\ f.comps[1].object.material.transparency > 0
    /\ f.reflected = BLACK /\ f.refracted = BLACK

\* C6: intersect_world returns every intersection of every object (as many
\* as the objects return together), t never decreasing from one element to
\* the next, and no value exactly when no object is intersected.
C6_SortedAscending ==
  \A f \in Matched :
    /\ (f.xs = None) <=> (HitCount(1, f.ray) = 0)
    /\ f.xs # None =>
         /\ Len(f.xs[1]) = HitCount(1, f.ray)
         /\ \A i \in 1..Len(objects) :
              \A j \in 1..Len(ObjectHits(objects[i], f.ray)) :
                Occurrences(f.xs[1], ObjectHits(objects[i], f.ray)[j])
                  = Occurrences(ObjectHits(objects[i], f.ray),
                                ObjectHits(objects[i], f.ray)[j])
         /\ Ascending(f.xs[1])

\* the ray is_shadowed casts from p towards the light
ShadowRay(p) == Ray(p, normalize(sub(light[1].position, p)))

\* C7: is_shadowed(p) is true iff the smallest non-negative t at which the
\* ray from p towards the light meets an object is strictly less than the
\* distance from p to the light.
C7_ShadowedIffNearestHit ==
  \A f \in Shaded :
    LET p == f.comps[1].over_point
        ts == FrontTs(ShadowRay(p))
    IN  f.shadowed <=>
          (ts # {} /\ Min(ts) < magnitude(sub(light[1].position, p)))

\* C8: shade_hit returns surface + reflected * reflectance + refracted *
\* (1 - reflectance), reflectance being schlick(), exactly when reflective
\* and transparency are both nonzero, and surface + reflected + refracted
\* otherwise; surface is the lighting computed with is_shadowed(over_point).
C8_ShadeHitBlend ==
  \A f \in Shaded :
    LET c == f.comps[1]
        m == c.object.material
    IN  /\ f.shadowed = is_shadowed(objects, light[1], c.over_point)
        /\ f.surface = lightning(m, c.object, light[1], c.over_point, c.eyev,
                                 c.normalv, f.shadowed).color
        /\ f.phase = "return" =>
             f.color =
               IF m.reflective # 0 /\ m.transparency # 0
               THEN f.surface + Mul(f.reflected, schlick(c))
                              + Mul(f.refracted, One - schlick(c))
               ELSE f.surface + f.reflected + f.refracted

\* shade_hit returned a blend that differs from the plain sum
C8_Witness ==
  \E f \in Shaded :
    /\ f.phase = "return"
    /\ f.comps[1].object.material.reflective # 0
    /\ f.comps[1].object.material.transparency # 0
    /\ f.color # f.surface + f.reflected + f.refracted

\* C17: the object list only grows: a step either leaves it as it is or
\* appends one shape at the end, so every valid index keeps referring to the
\* same shape id; the steps of color_at change neither the objects nor the
\* light, and set_light leaves the objects alone.
C17_ObjectsOnlyGrow ==
  [][/\ Len(objects') \in {Len(objects), Len(objects) + 1}
     /\ \A i \in 1..Len(objects) : objects'[i].id = objects[i].id
     /\ Len(objects') > Len(objects) =>
          SubSeq(objects', 1, Len(objects)) = objects
     /\ (stack # <<>> \/ stack' # <<>>) =>
          objects' = objects /\ light' = light
     /\ light' # light => objects' = objects /\ light' # None]_vars

\* a world of two shapes, added one after the other, whose first shape was
\* changed through get_object_mut, with a light, after a color_at call
C17_Witness ==
  /\ Len(objects) = 2
  /\ objects[1].id = 1 /\ objects[2].id = 2
  /\ objects[1].kind = "sphere" /\ objects[1].material = Matte
  /\ objects[1].translate = <<0, 0>>
  /\ light # None
  /\ result # None /\ result # Some(BLACK)

\* C12: on a world without a light shade_hit (and is_shadowed, its first
\* statement) panics and returns no colour, so color_at panics exactly when
\* the ray has a hit and returns black when it misses.
C12_NoLightPanics ==
  /\ panicked =>
       /\ light = None
       /\ stack # <<>> /\ top.phase = "shade_hit" /\ top.comps # None
  /\ light = None =>
       /\ \A f \in Matched :
            /\ (FrontTs(f.ray) # {}) <=> (f.phase = "shade_hit")
            /\ (FrontTs(f.ray) = {}) <=>
                 (f.phase = "return" /\ f.comps = None /\ f.color = BLACK)
       /\ result # None => result = Some(BLACK)

\* color_at panicked in shade_hit: the world has objects, one of them is hit
\* in front of the ray, and no light was set
C12_Witness ==
  /\ panicked /\ light = None
  /\ objects # <<>>
  /\ top.comps # None /\ top.comps[1].t >= 0

---------------------------------------------------------------------------
\* Harness of Intersection::hit and of the n1 / n2 walk: any list of up to
\* MaxLen intersections of two glass shapes, in any order

HitShapes ==
  { [Shape("sphere", 0, 0, 1, Material(0, One, 150)) EXCEPT !.id = 1],
    [Shape("sphere", 0, 0, 2, Material(0, One, 200)) EXCEPT !.id = 2] }

HitTs == (-EPSILON)..TRange

\* a caller builds the list
PushIntersection ==
  /\ h_hit = <<>> /\ h_self = 0
  /\ Len(h_xs) < MaxLen
  /\ \E t \in HitTs, o \in HitShapes : h_xs' = Append(h_xs, Intersection(t, o))
  /\ UNCHANGED <<h_hit, h_self, h_n>>

\* Intersection::hit(&h_xs)
CallHit ==
  /\ h_hit = <<>>
  /\ h_hit' = <<hit(h_xs)>>
  /\ UNCHANGED <<h_xs, h_self, h_n>>

\* h_xs[k].prepare_computations(r, &h_xs, ..), of which the harness keeps
\* n1 and n2
CallPrepare ==
  /\ h_self = 0
  /\ \E k \in 1..Len(h_xs) :
       /\ h_self' = k
       /\ h_n' = <<refraction_indices(h_xs, h_xs[k])>>
  /\ UNCHANGED <<h_xs, h_hit>>

\* the variables the hit harness leaves alone
exceptHit ==
  <<worldVars, lightVars, shapeVars, transformVars, cameraVars, groupVars, callVars>>

NextHit ==
  \/ (PushIntersection /\ UNCHANGED exceptHit)
  \/ (CallHit /\ UNCHANGED exceptHit)
  \/ (CallPrepare /\ UNCHANGED exceptHit)

SpecHit == Init /\ [][NextHit]_vars

\* C1: hit(xs) returns an intersection of xs whose t is the smallest of the
\* non-negative t values of xs: no intersection of xs has a non-negative t
\* strictly smaller than the returned one.
C1_HitIsSmallest ==
  (h_hit # <<>> /\ NonNegative(h_xs) # {}) =>
    /\ h_hit[1] # None
    /\ \A i \in NonNegative(h_xs) : h_hit[1][1].t <= h_xs[i].t

\* C2: hit never returns an intersection with t < 0, and it returns no hit
\* exactly when the list holds no intersection with t >= 0 (the empty list
\* included), so that an intersection at t = 0 can be the hit.
C2_HitNeverNegative ==
  h_hit # <<>> =>
    /\ (h_hit[1] = None) <=> (NonNegative(h_xs) = {})
    /\ h_hit[1] # None =>
         /\ h_hit[1][1].t >= 0
         /\ \E i \in 1..Len(h_xs) : h_xs[i] = h_hit[1][1]

\* hit was called on a list with an intersection behind the origin and
\* returned an intersection at t = 0
C2_Witness ==
  /\ h_hit # <<>> /\ h_hit[1] # None
  /\ h_hit[1][1].t = 0
  /\ \E i \in 1..Len(h_xs) : h_xs[i].t < 0

\* the container list after the intersections xs[1..k]: a shape already in
\* the list is removed, any other is appended
RECURSIVE ContainerAfter(_, _)
ContainerAfter(xs, k) ==
  IF k = 0 THEN <<>>
  ELSE LET c == ContainerAfter(xs, k - 1)
           o == xs[k].object
       IN  IF \E j \in 1..Len(c) : c[j].id = o.id
           THEN SelectSeq(c, LAMBDA e : e.id # o.id)
           ELSE Append(c, o)

LastIndex(c) == IF c = <<>> THEN One ELSE c[Len(c)].material.refractive_index

\* C9: for xs in ascending t, prepare_computations for the intersection
\* xs[k] gives n1 = the refractive index of the last shape of the container
\* list just before xs[k] is processed and n2 = that of the last shape just
\* after, each 1.0 when the list is empty then.
C9_IndicesAtPosition ==
  (h_self # 0 /\ Ascending(h_xs)) =>
    /\ h_n[1].n1 = LastIndex(ContainerAfter(h_xs, h_self - 1))
    /\ h_n[1].n2 = LastIndex(ContainerAfter(h_xs, h_self))

---------------------------------------------------------------------------
\* Harness of Material::lightning: a unit sphere at the origin, lit from
\* one of the four axis directions and seen from one of them

LightDist == 2     \* bound: the light is at most this far from the point

Axis == { <<1, 0>>, <<-1, 0>>, <<0, 1>>, <<0, -1>> }

Striped == [Matte EXCEPT !.pattern = Some([a |-> One, b |-> BLACK])]

ChooseLightning ==
  /\ l_in = <<>>
  /\ \E m \in {Matte, Striped}, p \in {<<0, 0>>, <<-1, 0>>}, d \in Axis,
        k \in 1..LightDist, intensity \in {One, 50}, eyev \in Axis,
        normalv \in Axis, in_shadow \in BOOLEAN :
       l_in' = <<[m |-> m,
                  object |-> Shape("sphere", 0, 0, 1, m),
                  light |-> PointLight(add(p, scale(d, k)), intensity),
                  position |-> p, eyev |-> eyev, normalv |-> normalv,
                  in_shadow |-> in_shadow]>>
  /\ UNCHANGED l_out

CallLightning ==
  /\ l_in # <<>> /\ l_out = <<>>
  /\ LET a == l_in[1]
     IN  l_out' = <<lightning(a.m, a.object, a.light, a.position, a.eyev,
                              a.normalv, a.in_shadow)>>
  /\ UNCHANGED l_in

\* the variables the lighting harness leaves alone
exceptLight ==
  <<worldVars, hitVars, shapeVars, transformVars, cameraVars, groupVars, callVars>>

NextLight ==
  \/ (ChooseLightning /\ UNCHANGED exceptLight)
  \/ (CallLightning /\ UNCHANGED exceptLight)

SpecLight == Init /\ [][NextLight]_vars

\* the unit vector from the lit point to the light
ToLight(a) == normalize(sub(a.light.position, a.position))

\* surface colour, or pattern sample, times light intensity times ambient
AmbientTerm(a) ==
  LET base == IF a.m.pattern = None THEN a.m.color
              ELSE stripe_at_object(a.m.pattern[1], a.object, a.position)
  IN  Mul(Mul(base, a.light.intensity), a.m.ambient)

\* C10: lightning returns only the ambient term whenever in_shadow is true
\* or the to-light vector has a dot product <= 0 with the normal (diffuse
\* and specular are both black then), and specular alone is black when the
\* reflected light vector has a dot product <= 0 with the eye vector.
C10_AmbientOnly ==
  l_out # <<>> =>
    LET a == l_in[1]
        o == l_out[1]
    IN  /\ (a.in_shadow \/ dot(ToLight(a), a.normalv) <= 0) =>
             /\ o.diffuse = BLACK
             /\ o.specular = BLACK
             /\ o.color = AmbientTerm(a)
        /\ dot(reflect(neg(ToLight(a)), a.normalv), a.eyev) <= 0 =>
             o.specular = BLACK

\* lightning was called for a point that faces the light and the eye and is
\* in shadow, and returned the (nonzero) ambient term
C10_Witness ==
  /\ l_out # <<>>
  /\ l_in[1].in_shadow
  /\ dot(ToLight(l_in[1]), l_in[1].normalv) > 0
  /\ dot(reflect(neg(ToLight(l_in[1])), l_in[1].normalv), l_in[1].eyev) > 0
  /\ l_out[1].color = AmbientTerm(l_in[1])
  /\ l_out[1].color > 0

---------------------------------------------------------------------------
\* Harness of the Shape methods: one call of intersect, normal_at or
\* Plane::local_intersect on a sphere or a plane whose transform is
\* translation * scaling(s, s, s), s = 0 making it singular

MaxScale == 2      \* bound: largest scaling factor of a harness shape

HarnessShapes ==
  { [Shape(k, 0, y, s, Matte) EXCEPT !.id = 1] :
      k \in {"sphere", "plane"}, y \in {0, 1}, s \in 0..MaxScale }

HarnessRays ==
  { Ray(<<x, y>>, d) : x \in (-TRange)..TRange, y \in (-TRange)..TRange,
                       d \in Axis }

\* local rays on both sides of the parallel threshold: the y component of
\* the direction is dy / den, and 1 / 10000 is EPSILON
LocalRays ==
  { [origin |-> <<0, oy>>, direction |-> d, den |-> den] :
      oy \in (-TRange)..TRange, d \in Axis, den \in {1, 9999, 10000, 10001} }

Call(op, shape, r) == [op |-> op, shape |-> shape, ray |-> r]

Outcome(panicked0, value) == [panicked |-> panicked0, value |-> value]

\* shape.intersect(&r)
CallIntersect ==
  /\ s_in = <<>>
  /\ \E shape \in HarnessShapes, r \in HarnessRays :
       /\ s_in' = <<Call("intersect", shape, r)>>
       /\ s_out' = <<IF intersect_panics(shape) THEN Outcome(TRUE, None)
                     ELSE Outcome(FALSE, intersect(shape, r))>>

\* shape.normal_at(point) for a point of the shape's surface, kept as the
\* ray from the shape's centre to the point
CallNormalAt ==
  /\ s_in = <<>>
  /\ \E shape \in HarnessShapes, d \in Axis :
       LET point == add(shape.translate, scale(d, shape.scale))
       IN  /\ s_in' = <<Call("normal_at", shape, Ray(point, d))>>
           /\ s_out' = <<IF normal_at_panics(shape) THEN Outcome(TRUE, None)
                         ELSE Outcome(FALSE, Some(normal_at(shape, point)))>>

\* plane.local_intersect(&lr)
CallLocalIntersect ==
  /\ s_in = <<>>
  /\ \E shape \in { p \in HarnessShapes : p.kind = "plane" }, lr \in LocalRays :
       /\ s_in' = <<Call("local_intersect", shape, lr)>>
       /\ s_out' = <<Outcome(FALSE, plane_intersect(shape, lr))>>

\* the variables the shape harness leaves alone
exceptShape ==
  <<worldVars, hitVars, lightVars, transformVars, cameraVars, groupVars, callVars>>

NextShape ==
  \/ (CallIntersect /\ UNCHANGED exceptShape)
  \/ (CallNormalAt /\ UNCHANGED exceptShape)
  \/ (CallLocalIntersect /\ UNCHANGED exceptShape)

SpecShape == Init /\ [][NextShape]_vars

\* C11: intersect and normal_at on a shape whose transform has determinant
\* exactly zero panic, whatever the variant: they return nothing, neither a
\* miss nor a value.
C11_SingularPanics ==
  (s_out # <<>> /\ s_in[1].op \in {"intersect", "normal_at"}
                /\ s_in[1].shape.scale = 0) =>
    s_out[1].panicked

\* the distance from the sphere's centre to the line of the ray, for a ray
\* along an axis
Offset(shape, r) ==
  LET rel == sub(r.origin, shape.translate)
  IN  Abs(rel[1] * r.direction[2] - rel[2] * r.direction[1])

\* C19: Sphere intersection returns no value or exactly two intersections,
\* never one; the first t is <= the second, the two are equal for a tangent
\* ray, and both refer to the sphere.  (For an invertible transform, no
\* value means that the line of the ray passes the sphere.)
C19_SphereTwoRoots ==
  (s_out # <<>> /\ s_in[1].op = "intersect"
                /\ s_in[1].shape.kind = "sphere") =>
    LET shape == s_in[1].shape
        r == s_in[1].ray
        v == s_out[1].value
    IN  /\ ~s_out[1].panicked
        /\ v # None =>
             /\ Len(v[1]) = 2
             /\ v[1][1].t <= v[1][2].t
             /\ v[1][1].object = shape /\ v[1][2].object = shape
        /\ is_invertible(shape) =>
             /\ (v = None) <=> (Offset(shape, r) > shape.scale)
             /\ Offset(shape, r) = shape.scale => v[1][1].t = v[1][2].t
             /\ Offset(shape, r) < shape.scale => v[1][1].t < v[1][2].t

\* a ray that touches a sphere: two intersections, at the same t
C19_Witness ==
  /\ s_out # <<>> /\ s_in[1].op = "intersect"
  /\ s_in[1].shape.kind = "sphere"
  /\ Offset(s_in[1].shape, s_in[1].ray) = s_in[1].shape.scale
  /\ s_in[1].shape.scale > 0
  /\ s_out[1].value # None
  /\ Len(s_out[1].value[1]) = 2
  /\ s_out[1].value[1][1].t = s_out[1].value[1][2].t

\* C20: Plane::local_intersect returns no intersection for a ray whose
\* direction has |y| < EPSILON, whatever the origin, and for any other ray
\* exactly one, at t = -origin.y / direction.y, negative or not.
C20_PlaneOneOrNone ==
  (s_out # <<>> /\ s_in[1].op = "local_intersect") =>
    LET lr == s_in[1].ray
        v == s_out[1].value
    IN  IF Abs(lr.direction[2]) * 10000 < lr.den
        THEN v = None
        ELSE /\ v # None
             /\ Len(v[1]) = 1
             /\ v[1][1].object = s_in[1].shape
             /\ lr.origin[2] + v[1][1].t * lr.direction[2] = 0

\* a ray whose direction has |y| = EPSILON exactly and that leaves the
\* plane behind: one intersection, at a negative t
C20_Witness ==
  /\ s_out # <<>> /\ s_in[1].op = "local_intersect"
  /\ Abs(s_in[1].ray.direction[2]) * 10000 = s_in[1].ray.den
  /\ s_out[1].value # None
  /\ s_out[1].value[1][1].t < 0

---------------------------------------------------------------------------
\* Harness of the Transformation builder: a chain of up to MaxOps calls
\* starting from Transformation::new()

MaxOps == 3        \* bound: longest builder chain

Op(name, a, b) == [name |-> name, a |-> a, b |-> b]

\* the builder method op applied to self
apply(op, self) ==
  IF op.name = "translation" THEN translation(self, op.a, op.b)
  ELSE IF op.name = "scaling" THEN scaling(self, op.a, op.b)
  ELSE IF op.name = "rotate_z" THEN rotate_z(self, op.a)
  ELSE shearing(self, op.a, op.b)

Chain(op) ==
  /\ Len(t_ops) < MaxOps
  /\ t_ops' = Append(t_ops, op)
  /\ t_data' = apply(op, t_data)

\* .translation(x, y, 0.0)
ChainTranslation == \E v \in {<<1, 0>>, <<0, -2>>} : Chain(Op("translation", v[1], v[2]))

\* .scaling(x, y, 1.0)
ChainScaling == \E v \in {<<2, 2>>, <<-1, 1>>} : Chain(Op("scaling", v[1], v[2]))

\* .rotate_z(k * PI / 2)
ChainRotateZ == \E k \in {1, 2} : Chain(Op("rotate_z", k, 0))

\* .shearing(xy, 0.0, yx, 0.0, 0.0, 0.0)
ChainShearing == \E v \in {<<1, 0>>} : Chain(Op("shearing", v[1], v[2]))

\* the variables the transformation harness leaves alone
exceptTransform ==
  <<worldVars, hitVars, lightVars, shapeVars, cameraVars, groupVars, callVars>>

NextTransform ==
  \/ (ChainTranslation /\ UNCHANGED exceptTransform)
  \/ (ChainScaling /\ UNCHANGED exceptTransform)
  \/ (ChainRotateZ /\ UNCHANGED exceptTransform)
  \/ (ChainShearing /\ UNCHANGED exceptTransform)

SpecTransform == Init /\ [][NextTransform]_vars

\* the matrix of one operation alone
OpMatrix(op) == apply(op, IDENTITY)

\* M_i * ... * M_2 * M_1
RECURSIVE Product(_, _)
Product(ops, i) ==
  IF i = 0 THEN IDENTITY ELSE matrix_mul(OpMatrix(ops[i]), Product(ops, i - 1))

\* the point p after the operations ops[1], .., ops[i], one after the other
RECURSIVE OneByOne(_, _, _)
OneByOne(ops, i, p) ==
  IF i = 0 THEN p
  ELSE matrix_mul_point(OpMatrix(ops[i]), OneByOne(ops, i - 1, p))

SamplePoints == { <<x, y>> : x \in {0, 1}, y \in {0, 3} }

\* C16: a builder chain new().op1().op2().op3() yields M3 * M2 * M1, so the
\* chain applied to a point gives what op1, then op2, then op3 give when
\* they are applied one after the other.
C16_ChainIsProduct ==
  /\ t_data = Product(t_ops, Len(t_ops))
  /\ \A p \in SamplePoints :
       matrix_mul_point(t_data, p) = OneByOne(t_ops, Len(t_ops), p)

---------------------------------------------------------------------------
\* Harness of Camera::render: one render of a finished world.  The pixels
\* are taken in the order of the two loops of render, or in any order by
\* the independent workers the specification allows.

MaxPixels == 2     \* bound: largest hsize and vsize of a camera

\* worlds with a light, built before the render starts
Scenes ==
  { [objects |-> <<[Shape("plane", 0, -4, 1, Mirror) EXCEPT !.id = 1],
                   [Shape("plane", 0, 3, 1, Mirror) EXCEPT !.id = 2]>>,
     light |-> PointLight(<<0, -1>>, One)],
    [objects |-> <<[Shape("sphere", 0, 0, 6, Glass) EXCEPT !.id = 1],
                   [Shape("plane", 0, -2, 1, Both) EXCEPT !.id = 2]>>,
     light |-> PointLight(<<0, 3>>, One)],
    [objects |-> <<[Shape("plane", 0, 2, 1, Matte) EXCEPT !.id = 1]>>,
     light |-> PointLight(<<0, -1>>, One)],
    [objects |-> <<[Shape("sphere", 10, 0, 1, Matte) EXCEPT !.id = 1],
                   [Shape("plane", 0, -4, 1, Mirror) EXCEPT !.id = 2]>>,
     light |-> PointLight(<<0, 3>>, One)],
    [objects |-> <<[Shape("plane", 0, 3, 1, Mirror) EXCEPT !.id = 1],
                   [Shape("plane", 0, 2, 1, Matte) EXCEPT !.id = 2]>>,
     light |-> PointLight(<<0, -1>>, One)] }

Camera(hsize, vsize) == [hsize |-> hsize, vsize |-> vsize]

\* Camera::ray_for_pixel: a ray that depends on the camera and the pixel
\* alone.  The grid holds no perspective directions, so the pixel selects
\* one of the rays of RayPresets: the column the direction, the row the
\* origin.
ray_for_pixel(camera, x, y) ==
  Ray(<<0, IF y % 2 = 0 THEN 0 ELSE -7>>,
      IF x % 2 = 0 THEN <<0, 1>> ELSE <<0, -1>>)

\* render, up to its loops: the canvas is new and black
Render ==
  /\ c_camera = None
  /\ \E hsize \in 1..MaxPixels, vsize \in 1..MaxPixels, w \in Scenes :
       /\ c_camera' = Some(Camera(hsize, vsize))
       /\ c_world' = Some(w)
       /\ c_canvas' = Some(Canvas(hsize, vsize))
       /\ c_count' = [i \in 1..(hsize * vsize) |-> 0]

\* the pixels for which color_at was not called yet, as x + y * hsize
Pending == { i \in DOMAIN c_count : c_count[i] = 0 }

\* the body of the loops of render for the pixel (x, y)
RenderPixel(x, y) ==
  LET camera == c_camera[1]
      ray == ray_for_pixel(camera, x, y)
      color == color_at(c_world[1].objects, c_world[1].light, ray, MaxDepth)
  IN  /\ c_canvas' = Some(write_pixel(c_canvas[1], x, y, color))
      /\ c_count' = [c_count EXCEPT ![x + y * camera.hsize + 1] = @ + 1]
      /\ UNCHANGED <<c_camera, c_world>>

\* the loops of render: the rows from the top, each from the left
RenderLoop ==
  /\ c_camera # None /\ Pending # {}
  /\ LET i == Min(Pending) - 1
     IN  RenderPixel(i % c_camera[1].hsize, i \div c_camera[1].hsize)

\* a worker that takes any pixel not rendered yet
RenderWorker ==
  /\ c_camera # None
  /\ \E i \in Pending :
       RenderPixel((i - 1) % c_camera[1].hsize, (i - 1) \div c_camera[1].hsize)

\* the variables the render harness leaves alone
exceptCamera ==
  <<worldVars, hitVars, lightVars, shapeVars, transformVars, groupVars, callVars>>

NextCamera ==
  \/ (Render /\ UNCHANGED exceptCamera)
  \/ (RenderLoop /\ UNCHANGED exceptCamera)
  \/ (RenderWorker /\ UNCHANGED exceptCamera)

SpecCamera == Init /\ [][NextCamera]_vars

\* what render has to put at pixel (x, y)
PixelColor(x, y) ==
  color_at(c_world[1].objects, c_world[1].light,
           ray_for_pixel(c_camera[1], x, y), MaxDepth)

\* every pixel of the canvas is black before its color_at call and holds
\* the colour of its own ray after it
CanvasAsRendered ==
  c_camera # None =>
    /\ Len(c_canvas[1].pixels) = c_camera[1].hsize * c_camera[1].vsize
    /\ \A x \in 0..(c_camera[1].hsize - 1), y \in 0..(c_camera[1].vsize - 1) :
         LET n == c_count[x + y * c_camera[1].hsize + 1]
         IN  /\ n \in {0, 1}
             /\ pixel_at(c_canvas[1], x, y) =
                  IF n = 1 THEN PixelColor(x, y) ELSE BLACK

---------------------------------------------------------------------------
\* Harness of the group tree: shapes are built, given to groups and to the
\* world, and then one method is called: World::get_object_by_id, or, once
\* every shape is in the world, Group::local_intersect,
\* Shape::world_to_object or Shape::normal_to_world

MaxShapes == 3     \* bound: shapes built

\* a plane is stretched along y, or stretched and lifted; a group is
\* turned by a quarter, or stretched along x and lifted
PlaneTransforms ==
  { scaling(Transformation_new, 1, 2),
    translation(scaling(Transformation_new, 1, 2), 0, 1) }

GroupTransforms ==
  { rotate_z(Transformation_new, 1),
    translation(scaling(Transformation_new, 2, 1), 0, 1) }

\* rays, points and normals of the calls
GroupRays ==
  { [origin |-> <<0, oy>>, direction |-> d, den |-> 1] :
      oy \in {-1}, d \in {<<0, 1>>} }

GroupPoints == { [num |-> <<2, 4>>, den |-> 1] }

GroupNormals == { <<60, 80>> }

\* the shapes a caller can get a reference to among objs: each of them
\* (get_object) and, through the pub field objects, every shape below it
RECURSIVE Nodes(_, _)
Nodes(objs, i) ==
  IF i > Len(objs) THEN {}
  ELSE {objs[i]} \cup Nodes(objs[i].objects, 1) \cup Nodes(objs, i + 1)

FreeNodes == UNION { {s} \cup Nodes(s.objects, 1) : s \in g_free }

\* Plane::new() or Group::new(), then set_transform
NewShape ==
  /\ g_in = <<>>
  /\ g_nextId <= MaxShapes
  /\ \E shape \in { set_transform(Plane_new(g_nextId), t) : t \in PlaneTransforms }
                    \cup { set_transform(Group_new(g_nextId), t) :
                             t \in GroupTransforms } :
       g_free' = g_free \cup {shape}
  /\ g_nextId' = g_nextId + 1
  /\ UNCHANGED <<g_world, g_in, g_out>>

\* group.add_object(Box::new(shape)): the shape moves into the group
GroupAddObject ==
  /\ g_in = <<>>
  /\ \E group \in { s \in g_free : s.kind = "group" } :
       \E shape \in g_free \ {group} :
         g_free' = (g_free \ {group, shape}) \cup {add_object(group, shape)}
  /\ UNCHANGED <<g_world, g_nextId, g_in, g_out>>

\* world.add_object(Box::new(shape)): the shape moves into the world
WorldAddObject ==
  /\ g_in = <<>>
  /\ \E shape \in g_free :
       /\ g_free' = g_free \ {shape}
       /\ g_world' = push(g_world, shape)
  /\ UNCHANGED <<g_nextId, g_in, g_out>>

\* world.get_object_by_id(id)
CallGetObjectById ==
  /\ g_in = <<>>
  /\ \E id \in 1..(MaxShapes + 1) :
       /\ g_in' = <<[op |-> "get_object_by_id", id |-> id]>>
       /\ g_out' = <<Outcome(FALSE, get_object_by_id(g_world, id, 1))>>
  /\ UNCHANGED <<g_free, g_world, g_nextId>>

\* group.local_intersect(&ray)
CallGroupLocalIntersect ==
  /\ g_in = <<>> /\ g_free = {}
  /\ \E group \in { s \in Nodes(g_world, 1) : s.kind = "group" },
        ray \in GroupRays :
       /\ g_in' = <<[op |-> "local_intersect", shape |-> group, ray |-> ray]>>
       /\ g_out' = <<Outcome(FALSE, Group_local_intersect(group, ray))>>
  /\ UNCHANGED <<g_free, g_world, g_nextId>>

\* shape.world_to_object(point, &world)
CallWorldToObject ==
  /\ g_in = <<>> /\ g_free = {}
  /\ \E shape \in Nodes(g_world, 1), point \in GroupPoints :
       /\ g_in' = <<[op |-> "world_to_object", shape |-> shape,
                     point |-> point]>>
       /\ g_out' = <<IF world_to_object_panics(shape, g_world)
                     THEN Outcome(TRUE, None)
                     ELSE Outcome(FALSE,
                                  Some(world_to_object(shape, point, g_world)))>>
  /\ UNCHANGED <<g_free, g_world, g_nextId>>

\* shape.normal_to_world(normal, &world)
CallNormalToWorld ==
  /\ g_in = <<>> /\ g_free = {}
  /\ \E shape \in Nodes(g_world, 1), normal \in GroupNormals :
       /\ g_in' = <<[op |-> "normal_to_world", shape |-> shape,
                     normal |-> normal]>>
       /\ g_out' = <<IF world_to_object_panics(shape, g_world)
                     THEN Outcome(TRUE, None)
                     ELSE Outcome(FALSE,
                                  Some(normal_to_world(shape, normal, g_world)))>>
  /\ UNCHANGED <<g_free, g_world, g_nextId>>

\* rays of color_at: upwards from below the origin, and along x
ColorRays ==
  { [origin |-> <<0, -1>>, direction |-> <<0, 1>>, den |-> 1],
    [origin |-> <<-3, 0>>, direction |-> <<1, 0>>, den |-> 1] }

\* world.color_at(&ray, remaining)
CallGroupColorAt ==
  /\ g_in = <<>> /\ g_free = {}
  /\ \E ray \in ColorRays :
       /\ g_in' = <<[op |-> "color_at", ray |-> ray]>>
       /\ g_out' = <<Outcome(FALSE, Group_color_at_match(g_world, ray))>>
  /\ UNCHANGED <<g_free, g_world, g_nextId>>

\* the variables the group harness leaves alone
exceptGroup ==
  <<worldVars, hitVars, lightVars, shapeVars, transformVars, cameraVars,
    callVars>>

NextGroup ==
  \/ (NewShape /\ UNCHANGED exceptGroup)
  \/ (GroupAddObject /\ UNCHANGED exceptGroup)
  \/ (WorldAddObject /\ UNCHANGED exceptGroup)
  \/ (CallGetObjectById /\ UNCHANGED exceptGroup)
  \/ (CallGroupLocalIntersect /\ UNCHANGED exceptGroup)
  \/ (CallWorldToObject /\ UNCHANGED exceptGroup)
  \/ (CallNormalToWorld /\ UNCHANGED exceptGroup)
  \/ (CallGroupColorAt /\ UNCHANGED exceptGroup)

SpecGroup == Init /\ [][NextGroup]_vars

\* C13: after any sequence of Group::add_object and World::add_object,
\* every shape stored directly in a group has that group's id as its
\* parent id, and World::get_object_by_id of the id of a shape of the
\* world, at any depth, returns that shape, so a parent id resolves to the
\* group; for an id of no shape of the world it returns nothing.
C13_ParentResolves ==
  /\ \A group \in FreeNodes \cup Nodes(g_world, 1) :
       \A i \in DOMAIN group.objects : group.objects[i].parent = Some(group.id)
  /\ (g_out # <<>> /\ g_in[1].op = "get_object_by_id") =>
       LET held == { s \in Nodes(g_world, 1) : s.id = g_in[1].id }
       IN  IF held = {} THEN g_out[1].value = None
           ELSE /\ g_out[1].value # None
                /\ g_out[1].value[1] \in held
                /\ \A s \in Nodes(g_world, 1) :
                     s.parent = Some(g_in[1].id) =>
                       /\ g_out[1].value[1].kind = "group"
                       /\ \E i \in DOMAIN g_out[1].value[1].objects :
                            g_out[1].value[1].objects[i] = s

\* the parent id of a shape two groups deep was looked up
C13_Witness ==
  /\ g_out # <<>> /\ g_in[1].op = "get_object_by_id"
  /\ g_out[1].value # None
  /\ g_out[1].value[1].parent # None
  /\ g_out[1].value[1].objects # <<>>

\* what the children of a group return for a ray, child by child, and
\* all of it in one list
ChildResults(group, ray) ==
  [i \in DOMAIN group.objects |-> Shape_intersect(group.objects[i], ray)]

RECURSIVE Flatten(_, _)
Flatten(each, i) ==
  IF i > Len(each) THEN <<>>
  ELSE (IF each[i] = None THEN <<>> ELSE each[i][1]) \o Flatten(each, i + 1)

\* C14: Group::local_intersect returns the union of what every child's
\* intersect returns for the ray, each intersection referring to a shape
\* below the group and never to the group, ordered by non-decreasing t; it
\* returns nothing for an empty group and when no child is hit.
C14_GroupIntersectSorted ==
  (g_out # <<>> /\ g_in[1].op = "local_intersect") =>
    LET group == g_in[1].shape
        each == ChildResults(group, g_in[1].ray)
        all == Flatten(each, 1)
        value == g_out[1].value
    IN  IF \A i \in DOMAIN each : each[i] = None THEN value = None
        ELSE /\ value # None
             /\ Len(value[1]) = Len(all)
             /\ \A k \in DOMAIN all :
                  Occurrences(value[1], all[k]) = Occurrences(all, all[k])
             /\ \A k \in DOMAIN value[1] :
                  /\ value[1][k].object \in Nodes(group.objects, 1)
                  /\ value[1][k].object.kind # "group"
             /\ \A j, k \in DOMAIN value[1] :
                  j < k => value[1][j].t <= value[1][k].t

\* the shape, its parent, the parent's parent, and so on up to the first
\* shape without a parent id, each parent being the shape of the world
\* with that id
RECURSIVE Ancestry(_)
Ancestry(shape) ==
  IF shape.parent = None THEN <<shape>>
  ELSE <<shape>> \o Ancestry(CHOOSE s \in Nodes(g_world, 1) :
                               s.id = shape.parent[1])

\* the inverse of a transform applied to the point p / den
Inverted(m, p, den) ==
  LET inv == inverse(m)[1]
  IN  [num |-> <<inv.num[1][1] * p[1] + inv.num[1][2] * p[2] + inv.num[1][3] * den,
                 inv.num[2][1] * p[1] + inv.num[2][2] * p[2] + inv.num[2][3] * den>>,
       den |-> inv.den * den]

\* the inverses of chain[i], chain[i - 1], ..., chain[1], in this order
RECURSIVE PointThrough(_, _, _)
PointThrough(chain, i, point) ==
  IF i = 0 THEN point
  ELSE PointThrough(chain, i - 1,
                    Inverted(chain[i].transform, point.num, point.den))

\* the normalised inverse-transpose of a transform applied to a vector
InverseTransposed(m, v) ==
  LET inv == inverse(m)[1]
      u == <<inv.num[1][1] * v[1] + inv.num[2][1] * v[2],
             inv.num[1][2] * v[1] + inv.num[2][2] * v[2]>>
      mag == SqrtBetween(dot(u, u), 0, dot(u, u))
  IN  IF inv.den > 0 THEN <<(u[1] * One) \div mag, (u[2] * One) \div mag>>
      ELSE <<((-u[1]) * One) \div mag, ((-u[2]) * One) \div mag>>

\* those of chain[i], chain[i + 1], ..., chain[Len(chain)], in this order
RECURSIVE NormalThrough(_, _, _)
NormalThrough(chain, i, normal) ==
  IF i > Len(chain) THEN normal
  ELSE NormalThrough(chain, i + 1, InverseTransposed(chain[i].transform, normal))

SamePoint(a, b) ==
  /\ a.num[1] * b.den = b.num[1] * a.den
  /\ a.num[2] * b.den = b.num[2] * a.den

\* C15: with the world, world_to_object applies the inverses of the
\* transforms of the shape's ancestors, the outermost group first and the
\* shape's own last; normal_to_world applies the inverse-transpose of the
\* shape's own transform first and then that of each ancestor from the
\* innermost to the outermost, normalising after each; both go up to the
\* first shape without a parent id.
C15_ParentChainOrder ==
  (g_out # <<>> /\ ~g_out[1].panicked) =>
    LET chain == Ancestry(g_in[1].shape)
    IN  /\ g_in[1].op = "world_to_object" =>
             SamePoint(g_out[1].value[1],
                       PointThrough(chain, Len(chain), g_in[1].point))
        /\ g_in[1].op = "normal_to_world" =>
             g_out[1].value[1] = NormalThrough(chain, 1, g_in[1].normal)

\* normal_to_world of a shape two groups deep whose own transform and
\* whose groups' transforms give another normal in any other order
C15_Witness ==
  /\ g_out # <<>> /\ ~g_out[1].panicked /\ g_in[1].op = "normal_to_world"
  /\ LET chain == Ancestry(g_in[1].shape)
         n == g_in[1].normal
     IN  /\ Len(chain) = 3
         /\ \A a, b, c \in 1..3 :
              ({a, b, c} = {1, 2, 3} /\ <<a, b, c>> # <<1, 2, 3>>) =>
                g_out[1].value[1]
                  # NormalThrough(<<chain[a], chain[b], chain[c]>>, 1, n)

---------------------------------------------------------------------------
\* Harness of single calls: one function is called once with arguments
\* drawn from a small grid

\* refractive indices and cosines, in units of 1 / One
RefractiveIndices == { One, 125, 150, 2 * One }

Cosines == { 20 * k - One : k \in 0..10 }

\* comps.schlick(), comps holding n1, n2 and vectors with eyev . normalv = cos
CallSchlick ==
  /\ k_in = <<>>
  /\ \E n1 \in RefractiveIndices, n2 \in RefractiveIndices, cos \in Cosines :
       /\ k_in' = <<[op |-> "schlick", n1 |-> n1, n2 |-> n2, cos |-> cos]>>
       /\ k_out' = <<Outcome(FALSE, schlick_of_cos(n1, n2, cos))>>

\* coordinates of pattern points on both sides of whole numbers, near 0
\* and at multiples of 2^30
Coordinates ==
  { Coordinate(big, small) :
      big \in -2..2, small \in {-11, -10, -1, 0, 9, 10, 15} }

TwoColours == [a |-> One, b |-> BLACK]

\* pattern.stripe_at(point)
CallStripeAt ==
  /\ k_in = <<>>
  /\ \E x \in Coordinates :
       /\ k_in' = <<[op |-> "stripe_at", x |-> x]>>
       /\ k_out' = <<Outcome(FALSE, stripe_at(TwoColours, x))>>

\* Checkers::pattern_at(point)
CallCheckers ==
  /\ k_in = <<>>
  /\ \E x \in Coordinates, y \in { c \in Coordinates : c.big = 0 } :
       /\ k_in' = <<[op |-> "pattern_at", x |-> x, y |-> y]>>
       /\ k_out' = <<Outcome(FALSE, pattern_at(TwoColours, x, y))>>

\* canvas.write_pixel(x, y, color) on a new canvas
CallWritePixel ==
  /\ k_in = <<>>
  /\ \E width \in 1..MaxPixels, height \in 1..MaxPixels,
        x \in 0..(MaxPixels + 1), y \in 0..(MaxPixels + 1) :
       LET canvas == Canvas(width, height)
       IN  /\ k_in' = <<[op |-> "write_pixel", canvas |-> canvas,
                         x |-> x, y |-> y, color |-> One]>>
           /\ k_out' = <<IF index_panics(canvas, x, y)
                         THEN Outcome(TRUE, None)
                         ELSE Outcome(FALSE,
                                      Some(write_pixel(canvas, x, y, One)))>>

\* rays from whole-numbered origins, along and almost along the two halves
\* of the cone (the directions 20001 : 20002 make a smaller than EPSILON)
SlantedRays ==
  { ConeRay(o, 1, d[1], d[2]) :
      o \in { <<0, -1>>, <<1, 0>>, <<0, 0>>, <<1, 1>> },
      d \in { <<<<1, 1>>, 1>>, <<<<1, -1>>, 1>>, <<<<1, 0>>, 1>>,
              <<<<20001, 20002>>, 20001>>, <<<<20002, 20001>>, 20001>> } }

\* rays from (x / 10, 2) straight down and sideways
CapRays ==
  { ConeRay(<<x, 20>>, 10, d, 1) : x \in -8..8, d \in { <<0, -1>>, <<1, 0>> } }

\* the cone after new, and cones cut at -+ 1 / 2 and at -+ 2
CutCones ==
  { Cone(Some(Rat(-1, 2)), Some(Rat(1, 2)), TRUE),
    Cone(Some(Rat(-1, 2)), Some(Rat(1, 2)), FALSE),
    Cone(Some(Rat(-2, 1)), Some(Rat(2, 1)), TRUE) }

\* cone.local_intersect(&ray)
CallConeLocalIntersect ==
  /\ k_in = <<>>
  /\ \E call \in ({Cone(None, None, FALSE)} \X (SlantedRays \cup CapRays))
                   \cup (CutCones \X CapRays) :
       /\ k_in' = <<[op |-> "cone_local_intersect", shape |-> call[1],
                     ray |-> call[2]]>>
       /\ k_out' = <<Outcome(FALSE, cone_local_intersect(call[1], call[2]))>>

\* a glass ball around the origin and a floor below it
PrepareShapes ==
  { [Shape("sphere", 0, 0, 6, Glass) EXCEPT !.id = 1],
    [Shape("plane", 0, -4, 1, Matte) EXCEPT !.id = 2] }

\* rays along the axes from the centre of the ball, from above it and from
\* below the floor
PrepareRays ==
  { Ray(o, d) : o \in { <<0, 0>>, <<0, 8>>, <<0, -8>> }, d \in Axis }

\* the intersections of the shape with the ray or, for a ray along the
\* floor, an intersection a caller made itself
PrepareList(shape, r) ==
  IF intersect(shape, r) # None THEN intersect(shape, r)[1]
  ELSE IF shape.kind = "plane" THEN <<Intersection(TRange, shape)>>
  ELSE <<>>

\* xs[i].prepare_computations(&r, &xs, None)
CallPrepareComputations ==
  /\ k_in = <<>>
  /\ \E shape \in PrepareShapes, r \in PrepareRays :
       \E i \in 1..Len(PrepareList(shape, r)) :
         LET xs == PrepareList(shape, r)
         IN  /\ k_in' = <<[op |-> "prepare_computations", self |-> xs[i],
                           ray |-> r, xs |-> xs]>>
             /\ k_out' = <<Outcome(FALSE, prepare_computations(xs[i], r, xs))>>

\* thousandths on the rings' borders, just inside and just outside of them
RingCoordinates ==
  { 0, 500, 708, 990, 994, 996, 1000, 1004, 1996, 2000,
    -500, -996, -1000, -1996 }

\* pattern.pattern_at(Point::new(x, 0.0, z)) of the rings
CallRingPatternAt ==
  /\ k_in = <<>>
  /\ \E x \in RingCoordinates, z \in RingCoordinates :
       /\ k_in' = <<[op |-> "ring_pattern_at", x |-> x, z |-> z]>>
       /\ k_out' = <<Outcome(FALSE, ring_pattern_at(TwoColours, x, z))>>

\* the variables the call harness leaves alone
exceptCall ==
  <<worldVars, hitVars, lightVars, shapeVars, transformVars, cameraVars,
    groupVars>>

NextCall ==
  \/ (CallSchlick /\ UNCHANGED exceptCall)
  \/ (CallStripeAt /\ UNCHANGED exceptCall)
  \/ (CallCheckers /\ UNCHANGED exceptCall)
  \/ (CallWritePixel /\ UNCHANGED exceptCall)
  \/ (CallConeLocalIntersect /\ UNCHANGED exceptCall)
  \/ (CallPrepareComputations /\ UNCHANGED exceptCall)
  \/ (CallRingPatternAt /\ UNCHANGED exceptCall)

SpecCall == Init /\ [][NextCall]_vars

\* a call of op has returned or panicked
Called(op) == k_out # <<>> /\ k_in[1].op = op

\* (n1 / n2)^2 * (1 - cos^2) > 1, in whole numbers
SineAboveOne(n1, n2, cos) ==
  n1 * n1 * (One * One - cos * cos) > n2 * n2 * One * One

\* C21: schlick returns exactly 1.0 whenever n1 > n2 and
\* (n1 / n2)^2 * (1 - cos^2) > 1, cos being eyev . normalv; when n1 <= n2 it
\* never takes that branch, and returns r0 + (1 - r0) * (1 - cos)^5.
C21_TotalInternalReflection ==
  Called("schlick") =>
    LET n1 == k_in[1].n1
        n2 == k_in[1].n2
        cos == k_in[1].cos
        r0 == powi(((n1 - n2) * One) \div (n1 + n2), 2)
    IN  /\ (n1 > n2 /\ SineAboveOne(n1, n2, cos)) => k_out[1].value = One
        /\ n1 <= n2 =>
             k_out[1].value = r0 + Mul(One - r0, powi(One - cos, 5))

\* a ray leaving glass for air at a flat angle was reflected entirely, and
\* the value is not the one the sum would give
C21_Witness ==
  /\ Called("schlick")
  /\ k_in[1].n1 = 150 /\ k_in[1].n2 = One /\ k_in[1].cos = 60
  /\ SineAboveOne(150, One, 60)
  /\ k_out[1].value = One

\* floor(x) is even: big * 2^30 is, so the floor of the small part decides
FloorParity(x) == (x.small \div 10) % 2

\* C22: for every point, negative coordinates included, stripe_at returns
\* colour a when floor(x) is even and b when it is odd, and
\* Checkers::pattern_at returns a iff the sum of the floors is even.
C22_PatternParity ==
  /\ Called("stripe_at") =>
       k_out[1].value = IF FloorParity(k_in[1].x) = 0 THEN One ELSE BLACK
  /\ Called("pattern_at") =>
       k_out[1].value =
         IF (FloorParity(k_in[1].x) + FloorParity(k_in[1].y)) % 2 = 0
         THEN One ELSE BLACK

\* C23: write_pixel(x, y, c) panics whenever x >= width or y >= height;
\* otherwise it changes only the cell (x, y): pixel_at(x, y) returns c
\* afterwards and every other cell keeps its colour.
C23_WritePixelBounds ==
  Called("write_pixel") =>
    LET canvas == k_in[1].canvas
        x == k_in[1].x
        y == k_in[1].y
    IN  IF x >= canvas.width \/ y >= canvas.height THEN k_out[1].panicked
        ELSE /\ ~k_out[1].panicked
             /\ pixel_at(k_out[1].value[1], x, y) = k_in[1].color
             /\ \A x2 \in 0..(canvas.width - 1), y2 \in 0..(canvas.height - 1) :
                  <<x2, y2>> # <<x, y>> =>
                    pixel_at(k_out[1].value[1], x2, y2)
                      = pixel_at(canvas, x2, y2)

\* the coefficients a and b of the cone's quadratic for the ray of the
\* call are within EPSILON of 0, and the root -c / (2b) of the claim
NearZeroA ==
  LET d == k_in[1].ray.direction
  IN  Abs(d[1] * d[1] - d[2] * d[2]) * 10000 < k_in[1].ray.den * k_in[1].ray.den

CoefficientB ==
  Rat(2 * (k_in[1].ray.origin[1] * k_in[1].ray.direction[1]
             - k_in[1].ray.origin[2] * k_in[1].ray.direction[2]),
      k_in[1].ray.oden * k_in[1].ray.den)

CoefficientC ==
  Rat(k_in[1].ray.origin[1] * k_in[1].ray.origin[1]
        - k_in[1].ray.origin[2] * k_in[1].ray.origin[2],
      k_in[1].ray.oden * k_in[1].ray.oden)

NearZeroB == Abs(CoefficientB.num) * 10000 < CoefficientB.den

\* C24: for an unbounded, uncapped cone with a within EPSILON of 0,
\* local_intersect returns exactly one intersection, at t = -c / (2b), when
\* b is not within EPSILON of 0, and none when b is too.
C24_ConeParallelRay ==
  (/\ Called("cone_local_intersect")
   /\ k_in[1].shape = Cone(None, None, FALSE)
   /\ NearZeroA) =>
    IF NearZeroB THEN k_out[1].value = None
    ELSE /\ k_out[1].value # None
         /\ Len(k_out[1].value[1]) = 1
         /\ LET t == k_out[1].value[1][1].t
            IN  t.num * 2 * CoefficientB.num * CoefficientC.den
                  = -CoefficientC.num * CoefficientB.den * t.den

\* the point of the call's ray at the i-th returned intersection lies in the
\* plane of one of the cone's cuts: the intersection is one with a cap
OnCapPlane(i) ==
  LET y == cone_position(k_in[1].ray, 2, k_out[1].value[1][i].t)
      cuts == { k_in[1].shape.minimum[1], k_in[1].shape.maximum[1] }
  IN  /\ k_in[1].shape.minimum # None
      /\ \E cut \in cuts : y.num * cut.den = cut.num * y.den

\* x^2 + z^2 <= y^2 at the i-th returned intersection
WithinRadius(i) ==
  LET x == cone_position(k_in[1].ray, 1, k_out[1].value[1][i].t)
      y == cone_position(k_in[1].ray, 2, k_out[1].value[1][i].t)
  IN  ~RatLess(RatMul(y, y), RatMul(x, x))

\* C25: local_intersect reports an intersection with a cap only for a closed
\* cone, only when direction.y is not within EPSILON of 0, and only where
\* x^2 + z^2 <= y^2 at the cap.
C25_CapWithinRadius ==
  (Called("cone_local_intersect") /\ k_out[1].value # None) =>
    \A i \in 1..Len(k_out[1].value[1]) :
      OnCapPlane(i) =>
        /\ k_in[1].shape.closed
        /\ ~(Abs(k_in[1].ray.direction[2]) * 10000 < k_in[1].ray.den)
        /\ WithinRadius(i)

\* the shape's normal at the hit point of the prepare_computations call, and
\* the eye vector
HitNormal ==
  normal_at(k_in[1].self.object, position(k_in[1].ray, k_in[1].self.t))

HitEye == neg(k_in[1].ray.direction)

\* C26: after prepare_computations, inside is true iff the shape's normal at
\* the hit point has a negative dot product with the eye vector; normalv is
\* that normal, negated when inside, so normalv . eyev >= 0; over_point and
\* under_point are point + normalv * EPSILON and point - normalv * EPSILON
\* for the stored normalv.
C26_InsideFlipsNormal ==
  Called("prepare_computations") =>
    LET comps == k_out[1].value
    IN  /\ comps.inside <=> (dot(HitNormal, HitEye) < 0)
        /\ comps.normalv = IF comps.inside THEN neg(HitNormal) ELSE HitNormal
        /\ comps.eyev = HitEye
        /\ dot(comps.normalv, comps.eyev) >= 0
        /\ comps.point = position(k_in[1].ray, k_in[1].self.t)
        /\ comps.over_point = add(comps.point, scale(comps.normalv, EPSILON))
        /\ comps.under_point = sub(comps.point, scale(comps.normalv, EPSILON))

\* the hit is on the inside of the ball: the stored normal is the flipped
\* one, and over_point lies on the side of the ray's origin
C26_Witness ==
  /\ Called("prepare_computations")
  /\ k_in[1].self.object.kind = "sphere"
  /\ k_out[1].value.inside
  /\ k_out[1].value.normalv = neg(HitNormal)
  /\ k_out[1].value.over_point = sub(k_out[1].value.point, scale(HitNormal, EPSILON))

\* floor(sqrt(x^2 + z^2)) for the x and z of the ring call, in thousandths
RingDistance ==
  SqrtBetween(k_in[1].x * k_in[1].x + k_in[1].z * k_in[1].z, 0, 46340) \div 1000

\* C27: Ring::pattern_at returns colour a iff floor(sqrt(x^2 + z^2)) of the
\* point's own x and z is even, also for points whose distance from the y
\* axis is just below an integer.
C27_RingParity ==
  Called("ring_pattern_at") =>
    (k_out[1].value = TwoColours.a <=> RingDistance % 2 = 0)

\* color_at was called on the world of group trees and hit a shape that
\* has a parent
HitInGroup ==
  /\ g_out # <<>> /\ g_in[1].op = "color_at"
  /\ g_out[1].value # None
  /\ g_out[1].value[1].object.parent # None

\* the normal of the hit shape at the hit point through its parent chain,
\* turned towards the eye
FullChainNormal ==
  LET comps == g_out[1].value[1]
      n == Shape_normal_at(comps.object, comps.point, Some(g_world))
  IN  IF dot(n, comps.eyev) < 0 THEN neg(n) ELSE n

\* C28: when color_at hits a shape nested in groups, the normal it hands to
\* shade_hit is the one obtained through the full parent chain,
\* shape.normal_at(point, Some(world)).
C28_NormalThroughParents ==
  HitInGroup => g_out[1].value[1].normalv = FullChainNormal

\* the matrix of the builder call alone has an inverse: no scale factor is
\* 0, and the shear has the determinant 1 - xy * yx # 0
Invertible(op) ==
  /\ op.name = "scaling" => (op.a # 0 /\ op.b # 0)
  /\ op.name = "shearing" => op.a * op.b # 1

\* C29: every Transformation built by a chain of builder calls keeps the
\* affine bottom row [0, 0, 0, 1] and so, when each call of the chain is
\* invertible, is a matrix that Matrix::inverse accepts.
C29_AffineBottomRow ==
  /\ t_data[3] = <<0, 0, 1>>
  /\ (\A i \in 1..Len(t_ops) : Invertible(t_ops[i])) => inverse(t_data) # None

\* an earlier intersection of h_xs has the shape of the prepared one and a
\* t within EPSILON of its t
EarlierTwin ==
  \E j \in 1..(h_self - 1) :
    /\ h_xs[j].object.id = h_xs[h_self].object.id
    /\ Abs(h_xs[j].t - h_xs[h_self].t) < EPSILON

\* C30: prepare_computations on h_xs[h_self] never leaves n1 or n2 at 0, and
\* when an earlier intersection of the same shape lies within EPSILON of it,
\* n1 and n2 are still those of the container list at position h_self.
C30_IndicesOfTwin ==
  h_self # 0 =>
    /\ h_n[1].n1 # 0 /\ h_n[1].n2 # 0
    /\ EarlierTwin =>
         /\ h_n[1].n1 = LastIndex(ContainerAfter(h_xs, h_self - 1))
         /\ h_n[1].n2 = LastIndex(ContainerAfter(h_xs, h_self))

====
